---- MODULE Spec2Model ----
(***************************************************************************)
(* Model of the WAIOR timetabling pipeline: the Sectioner (balanced mode   *)
(* 02_sectioning.py and ILP mode 02c_sectioning_ilp.py) and the Primary    *)
(* Assignment Engine scripts.                                              *)
(*                                                                         *)
(* Representation.  A student identifier is a stripped string; the model   *)
(* stands for it by its rank in the sorted order of all stripped           *)
(* identifiers (a positive integer), so "sorted" is the integer order.  An *)
(* identifier is the pair <<rank, pad>>: pad = 1 says the string carries a *)
(* leading blank, which strip() removes (pad becomes 0).  A section        *)
(* identifier f"{course_id}_{label}" is the pair <<course, label>>.        *)
(***************************************************************************)
EXTENDS Integers, Sequences, FiniteSets, TLC

\* ------------------------------------------------------------------ bounds
\* Largest enrollment of the swept single-course inputs.
MaxN == 146
\* A solver result accepted with status FEASIBLE is explored up to this many
\* mismatches above the optimum.
MaxSlack == 1
\* An engine result accepted with status FEASIBLE is explored up to this much
\* below the optimum of the objective.
EngSlack == 1
\* A soft-floor result accepted with status FEASIBLE is explored with one
\* shortfall variable up to this much above its least value.
SfSlack == 1
\* An overflow result accepted with status FEASIBLE is explored up to this many
\* days above the optimum.
OvfSlack == 1
\* Days of the pool of the table with two pending sections that share a student.
MaxCDays == 3
\* the longest sequence of runs of the stages 44, 45 and 61 in one behaviour
MaxRuns == 3
\* Slots of the one-week term tables, and weeks of the two-slots-a-week table.
LongWeekSlots == 38
TermWeeks == 9

\* ------------------------------------------------------- program constants
MAX_CAP == 70
MIN_CAP == 25

Courses == {"X", "Y"}

\* ------------------------------------------------------------ sequence kit
Range(s) == {s[i] : i \in DOMAIN s}

\* TLC evaluates [x \in S |-> e] lazily, once per application; these give the
\* same sequence or function, tabulated once
SeqOf(s) == s \o <<>>
FcnOf(f) == f @@ <<>>

Reverse(s) == SeqOf([i \in 1..Len(s) |-> s[Len(s) + 1 - i]])

\* str(s).strip(): drops the surrounding blanks of an identifier
strip(raw) == <<raw[1], 0>>

\* string order on identifiers: a leading blank sorts before any other character
str_less(a, b) == a[2] > b[2] \/ (a[2] = b[2] /\ a[1] < b[1])

\* list sorted(): the same elements (with multiplicity) in ascending string order
sorted(s) == SortSeq(s, str_less)

\* mutant of drop_duplicates: repeated rows are kept
keep_duplicates(s) == s

\* DataFrame.drop_duplicates(): keeps the first occurrence of each row
drop_duplicates(s) ==
  LET first  == {i \in DOMAIN s : \A j \in 1..(i - 1) : s[j] # s[i]}
      tagged == SelectSeq([i \in DOMAIN s |-> <<i, s[i]>>], LAMBDA t : t[1] \in first)
  IN  IF Cardinality(Range(s)) = Len(s) THEN s    \* no row is repeated
      ELSE SeqOf([i \in DOMAIN tagged |-> tagged[i][2]])

\* math.ceil(a / b) for a >= 0, b > 0
ceil_div(a, b) == (a + b - 1) \div b

Max(S) == CHOOSE x \in S : \A y \in S : y <= x
Min(S) == CHOOSE x \in S : \A y \in S : x <= y

\* ------------------------------------------------------------------ inputs
\* An enrollment table is described by (m, b, dup): course X enrolls the
\* students of ranks 1..m and the b students of ranks m+1, m+3, ...; course Y
\* enrolls the b-1 students of the ranks in between (so the global identities
\* of X's students are skewed when b > 0); dup adds a second row for X's first
\* student, written with a leading blank.
RunScenarios ==
  {[m |-> n, b |-> 0, dup |-> FALSE] :
     n \in {0, 1, MIN_CAP - 1, MIN_CAP, MAX_CAP, MAX_CAP + 1, 2 * MAX_CAP,
            2 * MAX_CAP + 1, 145}}
  \cup {[m |-> 30, b |-> 0, dup |-> TRUE], [m |-> 100, b |-> 0, dup |-> TRUE]}
  \cup {[m |-> 0, b |-> 80, dup |-> FALSE], [m |-> 20, b |-> 65, dup |-> FALSE],
        [m |-> 60, b |-> 45, dup |-> FALSE], [m |-> 70, b |-> 75, dup |-> FALSE],
        [m |-> 0, b |-> 20, dup |-> FALSE]}

\* the inputs of the direct calls: every enrollment 0..MaxN with alternating
\* identities, the skewed ones over three bases, and the first enrollment that
\* needs more sections than there are labels
CallScenarios ==
  {[m |-> n, b |-> 0, dup |-> FALSE] : n \in 0..MaxN}
  \cup {[m |-> n, b |-> k, dup |-> FALSE] : n \in {0, 20, 60}, k \in 1..MaxN}
  \cup {[m |-> 26 * MAX_CAP + 1, b |-> 0, dup |-> FALSE]}

\* the largest rank in a table a script run reads
MaxId == Max({sc.m + 2 * sc.b : sc \in RunScenarios})

\* the ids enrolled in a course, in ascending order
enrolled(sc, c) ==
  IF c = "X"
    THEN SeqOf([i \in 1..(sc.m + sc.b) |->
                  IF i <= sc.m THEN <<i, 0>> ELSE <<sc.m + 2 * (i - sc.m) - 1, 0>>])
  ELSE SeqOf([i \in 1..(IF sc.b > 0 THEN sc.b - 1 ELSE 0) |-> <<sc.m + 2 * i, 0>>])

table(sc) ==
  {<<"X", raw>> : raw \in Range(enrolled(sc, "X"))}
  \cup {<<"Y", raw>> : raw \in Range(enrolled(sc, "Y"))}
  \cup (IF sc.dup /\ sc.m + sc.b > 0 THEN {<<"X", <<enrolled(sc, "X")[1][1], 1>>>>} ELSE {})

VARIABLES
  enrollments,          \* outputs/enrollments.csv: set of rows <<course_id, raw student id>>
  sections,             \* outputs/sections.csv: sequence of rows
  section_enrollments,  \* outputs/section_enrollments.csv: sequence of rows
  last_run,             \* what the most recent call or script run did
  args,                 \* the arguments of a direct call of a Sectioner function
  courses,              \* outputs/courses.csv: sequence of rows
  slots,                \* outputs/slots.csv: sequence of rows
  engine,               \* what the most recent Primary Assignment Engine run did
  base_sessions,        \* outputs/section_sessions_floor18_cap20_facsplit.csv: sequence of rows
  cslots,               \* outputs/contingent_slots.csv: sequence of rows
  overflow,             \* what the most recent Overflow Scheduler run did
  term_schedule,        \* outputs/term_schedule_floor18.csv: sequence of rows
  term_section_sessions, \* outputs/term_section_sessions_floor18.csv: sequence of rows
  contingent_schedule,  \* outputs/contingent_schedule.csv: sequence of rows
  runs                  \* the runs of the stages 44, 45 and 61 so far, oldest first

vars == <<enrollments, sections, section_enrollments, last_run, args, courses, slots, engine,
          base_sessions, cslots, overflow, term_schedule, term_section_sessions,
          contingent_schedule, runs>>

\* the tables the term export and the Overflow Scheduler write
exports == <<term_schedule, term_section_sessions, contingent_schedule>>

\* a table that is not on disk: every table a script writes has a row
NoFile == <<>>

\* ------------------------------------------------- 02_sectioning.py
ALPHABET == <<"A", "B", "C", "D", "E", "F", "G", "H", "I", "J", "K", "L", "M",
              "N", "O", "P", "Q", "R", "S", "T", "U", "V", "W", "X", "Y", "Z">>

\* make_section_labels(k): the first k capital letters; raises for k > 26
make_section_labels(k) ==
  IF k > 26 THEN [err |-> "ValueError", labels |-> <<>>]
  ELSE [err |-> "none", labels |-> SubSeq(ALPHABET, 1, k)]

NoRows == [err |-> "none", sections_rows |-> <<>>, section_enroll_rows |-> <<>>]

Raise(e) == [err |-> e, sections_rows |-> <<>>, section_enroll_rows |-> <<>>]

\* mutant of balanced_sizes: the remainder goes to the last sections
balanced_sizes_rem_last(N, k) ==
  LET base == N \div k
      rem  == N % k
  IN  [i \in 1..k |-> base + (IF i > k - rem THEN 1 ELSE 0)]

\* the balanced sizes of lines 42-44
balanced_sizes(N, k) ==
  LET base == N \div k
      rem  == N % k
  IN  [i \in 1..k |-> base + (IF i - 1 < rem THEN 1 ELSE 0)]

\* mutant of sizes_valid: a section of exactly MAX_CAP students is refused
sizes_valid_strict(sizes) ==
  ~(Max(Range(sizes)) >= MAX_CAP \/ Min(Range(sizes)) < MIN_CAP)

\* the re-validation of line 47
sizes_valid(sizes) ==
  ~(Max(Range(sizes)) > MAX_CAP \/ Min(Range(sizes)) < MIN_CAP)

\* section_course(course_id, student_ids): the rows it returns, or the error it raises
section_course(course_id, student_ids) ==
  LET N     == Len(student_ids)
      k_min == ceil_div(N, MAX_CAP)
      k_max == IF N >= MIN_CAP THEN N \div MIN_CAP ELSE 0
  IN  IF k_min = 0 THEN Raise("NoStudents")
      ELSE IF k_min > k_max THEN Raise("CannotSatisfy")
      ELSE
        LET k     == k_min
            sizes == balanced_sizes(N, k)
        IN  IF ~sizes_valid(sizes) THEN Raise("SizesInvalid")
            ELSE
              LET student_ids_sorted ==
                    sorted(SeqOf([i \in 1..N |-> strip(student_ids[i])]))
                  lab == make_section_labels(k)
              IN  IF lab.err # "none" THEN Raise("TooManySections")
                  ELSE
                    LET labels == lab.labels
                        \* idx at the start of iteration i of the loop of lines 57-74
                        idx[i \in 1..k] == IF i = 1 THEN 0 ELSE idx[i - 1] + sizes[i - 1]
                        \* the rows of student_ids_sorted[idx: idx + size] (a slice
                        \* stops at the end of the list)
                        chunk_rows(i) ==
                          LET hi    == IF idx[i] + sizes[i] < N THEN idx[i] + sizes[i] ELSE N
                              chunk == SubSeq(student_ids_sorted, idx[i] + 1, hi)
                          IN  SeqOf([j \in 1..Len(chunk) |->
                                       [section_id |-> <<course_id, labels[i]>>,
                                        student_id |-> chunk[j]]])
                        enroll_rows[i \in 0..k] ==
                          IF i = 0 THEN <<>> ELSE enroll_rows[i - 1] \o chunk_rows(i)
                    IN  [err |-> "none",
                         sections_rows |->
                           [i \in 1..k |-> [section_id |-> <<course_id, labels[i]>>,
                                            course_id |-> course_id,
                                            section_label |-> labels[i],
                                            size |-> sizes[i]]],
                         section_enroll_rows |-> enroll_rows[k]]

\* pd.read_csv(enrollments.csv): the rows of the file, in the file's row order
\* (ascending or descending by course and identifier)
AllRows ==
  [i \in 1..(4 * MaxId) |->
     <<IF i <= 2 * MaxId THEN "X" ELSE "Y",
       <<((i - 1) % MaxId) + 1, 1 - (((i - 1) \div MaxId) % 2)>>>>]

read_csv(file, order) ==
  LET asc == SelectSeq(AllRows, LAMBDA r : r \in file)
  IN  IF order = "asc" THEN asc ELSE Reverse(asc)

\* the student ids of one course in a table of (course_id, student_id) rows
students_of(rows, course_id) ==
  LET sel == SelectSeq(rows, LAMBDA r : r[1] = course_id)
  IN  SeqOf([i \in 1..Len(sel) |-> sel[i][2]])

\* mutant of courses_by_count: the courses in non-decreasing order of count
courses_by_count_asc(rows) ==
  LET present == {r[1] : r \in Range(rows)}
      cnt(c)  == Cardinality({r[2] : r \in {q \in Range(rows) : q[1] = c}})
  IN  {o \in [1..Cardinality(present) -> present] :
         /\ \A i, j \in DOMAIN o : i # j => o[i] # o[j]
         /\ \A i \in DOMAIN o : i > 1 => cnt(o[i - 1]) <= cnt(o[i])}

\* sort_values(ascending=False) of the per-course counts: every order of the
\* courses present that is non-increasing in the count (ties in either order)
courses_by_count(rows) ==
  LET present == {r[1] : r \in Range(rows)}
      cnt(c)  == Cardinality(Range(students_of(rows, c)))
  IN  {o \in [1..Cardinality(present) -> present] :
         /\ \A i, j \in DOMAIN o : i # j => o[i] # o[j]
         /\ \A i \in DOMAIN o : i > 1 => cnt(o[i - 1]) >= cnt(o[i])}

\* generate_sections(): the outcome of one run reading the rows in `order`
\* and visiting the courses in `corder`
generate_sections(file, order, corder) ==
  LET raw  == read_csv(file, order)
      enrollments_df ==
        drop_duplicates(SeqOf([i \in 1..Len(raw) |-> <<raw[i][1], strip(raw[i][2])>>]))
      \* the loop of lines 101-107: the rows gathered after i courses, or the
      \* error that ended the run
      loop[i \in 0..Len(corder)] ==
        IF i = 0 THEN NoRows
        ELSE LET acc == loop[i - 1]
             IN  IF acc.err # "none" THEN acc
                 ELSE LET r == section_course(corder[i],
                                              students_of(enrollments_df, corder[i]))
                      IN  IF r.err # "none" THEN r
                          ELSE [err |-> "none",
                                sections_rows |-> acc.sections_rows \o r.sections_rows,
                                section_enroll_rows |->
                                  acc.section_enroll_rows \o r.section_enroll_rows]
      out == loop[Len(corder)]
  IN  IF out.err # "none"
        THEN [status |-> out.err, saved |-> FALSE,
              sections |-> <<>>, section_enrollments |-> <<>>]
      \* an empty sections frame is saved, and then has no course_id column
      \* for the summary of line 122
      ELSE [status |-> IF Len(corder) = 0 THEN "KeyError" ELSE "ok",
            saved |-> TRUE,
            sections |-> out.sections_rows,
            section_enrollments |-> out.section_enroll_rows]

\* ------------------------------------------------- 02c_sectioning_ilp.py
\* make_global_bucket(students): identity 0/1 alternating over the sorted ids
\* (a dict: a repeated id keeps the value written last)
make_global_bucket(students) ==
  LET s == sorted(SeqOf([i \in 1..Len(students) |-> strip(students[i])]))
  IN  FcnOf([sid \in Range(s) |-> (Max({i \in DOMAIN s : s[i] = sid}) - 1) % 2])

\* mutant of size_constraints: sections of MIN_CAP - 1 students are let in
size_constraints_one_less(sizeA, sizeB) ==
  /\ sizeA >= MIN_CAP - 1
  /\ sizeA <= MAX_CAP
  /\ sizeB >= MIN_CAP - 1
  /\ sizeB <= MAX_CAP

\* the size constraints of lines 50-54
size_constraints(sizeA, sizeB) ==
  /\ sizeA >= MIN_CAP
  /\ sizeA <= MAX_CAP
  /\ sizeB >= MIN_CAP
  /\ sizeB <= MAX_CAP

\* the statuses line 77 accepts
accepted_status(status) == status \in {"OPTIMAL", "FEASIBLE"}

\* The CP-SAT solve of lines 39-76 on a list without repeated ids.  An
\* assignment y moves m0 students of identity 0 to section B and m1 students of
\* identity 1 to section A: sizeB = n1 - m1 + m0 and sum(mismatch) = m0 + m1.
\* The solver may end OPTIMAL with any y of least sum(mismatch) among those
\* meeting the size constraints, FEASIBLE (time limit, 8 workers) with any y
\* meeting them (the model keeps the status FEASIBLE for those that are not
\* optimal), INFEASIBLE when there is none, or UNKNOWN at the time limit.
\* Of the y with the same (m0, m1) the model returns the two that move the
\* first, or the last, students of each identity in list order, and of the
\* FEASIBLE ones those within MaxSlack of the optimum.
cp_sat_solve(student_ids, bucket) ==
  LET N     == Len(student_ids)
      zeros == SelectSeq(student_ids, LAMBDA sid : bucket[sid] = 0)
      ones  == SelectSeq(student_ids, LAMBDA sid : bucket[sid] = 1)
      n0    == Len(zeros)
      n1    == Len(ones)
      feas  == {p \in (0..n0) \X (0..n1) :
                  size_constraints(N - (n1 - p[2] + p[1]), n1 - p[2] + p[1])}
      opt   == Min({p[1] + p[2] : p \in feas})
      moved(p, sel) ==
        IF sel = "first"
          THEN Range(SubSeq(zeros, 1, p[1])) \cup Range(SubSeq(ones, 1, p[2]))
        ELSE Range(SubSeq(zeros, n0 - p[1] + 1, n0)) \cup Range(SubSeq(ones, n1 - p[2] + 1, n1))
      y(p, sel) ==
        LET mv == moved(p, sel)
        IN  FcnOf([sid \in Range(student_ids) |->
                     IF sid \in mv THEN 1 - bucket[sid] ELSE bucket[sid]])
  IN  IF feas = {} THEN {[status |-> "INFEASIBLE", y |-> <<>>], [status |-> "UNKNOWN", y |-> <<>>]}
      ELSE {[status |-> "UNKNOWN", y |-> <<>>]}
           \cup {[status |-> IF p[1] + p[2] = opt THEN "OPTIMAL" ELSE "FEASIBLE",
                  y |-> y(p, sel)] :
                   p \in {q \in feas : q[1] + q[2] <= opt + MaxSlack},
                   sel \in {"first", "last"}}

\* mutant of no_split_needed: a course of MAX_CAP + 1 students is not split
no_split_needed_off_by_one(N) == N <= MAX_CAP + 1

\* mutant of no_split_needed: a course of exactly MAX_CAP students is split
no_split_needed_strict(N) == N < MAX_CAP

\* the test of line 30
no_split_needed(N) == N <= MAX_CAP

\* solve_ab_assignment(student_ids, bucket, course_id): every result the call
\* can have: the pair (assign, k) it returns, or the error it raises; models
\* counts the CpModels it built
solve_ab_assignment(student_ids, bucket, course_id) ==
  LET N == Len(student_ids)
  IN  IF no_split_needed(N)
        THEN {[err |-> "none", assign |-> [sid \in Range(student_ids) |-> 0], k |-> 1,
               models |-> 0, status |-> "-"]}
      ELSE IF ceil_div(N, MAX_CAP) # 2
        THEN {[err |-> "Expected2Sections", assign |-> <<>>, k |-> 0, models |-> 0,
               status |-> "-"]}
      ELSE {IF ~accepted_status(r.status)
              THEN [err |-> "NoFeasibleAB", assign |-> <<>>, k |-> 0, models |-> 1,
                    status |-> r.status]
            ELSE [err |-> "none", assign |-> r.y, k |-> 2, models |-> 1,
                  status |-> r.status] :
            r \in cp_sat_solve(student_ids, bucket)}

\* sort key of sort_values(["course_id", "section_label"])
label_rank(l) == CHOOSE i \in DOMAIN ALPHABET : ALPHABET[i] = l

row_less(r1, r2) ==
  LET c1 == IF r1.course_id = "X" THEN 1 ELSE 2
      c2 == IF r2.course_id = "X" THEN 1 ELSE 2
  IN  c1 < c2 \/ (c1 = c2 /\ label_rank(r1.section_label) < label_rank(r2.section_label))

\* the safety check of line 119
sizes_ok_after_solve(lenA, lenB) ==
  MIN_CAP <= lenA /\ lenA <= MAX_CAP /\ MIN_CAP <= lenB /\ lenB <= MAX_CAP

\* the rows one iteration of the loop of lines 101-131 appends for a course,
\* given the result of its solve_ab_assignment call
ilp_course_rows(course_id, N, studs, r) ==
  IF r.err # "none" THEN Raise(r.err)
  ELSE IF r.k = 1
    THEN [err |-> "none",
          sections_rows |-> <<[section_id |-> <<course_id, "A">>, course_id |-> course_id,
                               section_label |-> "A", size |-> N]>>,
          section_enroll_rows |->
            SeqOf([i \in 1..Len(studs) |-> [section_id |-> <<course_id, "A">>,
                                            student_id |-> studs[i]]])]
  ELSE
    LET A == SelectSeq(studs, LAMBDA sid : r.assign[sid] = 0)
        B == SelectSeq(studs, LAMBDA sid : r.assign[sid] = 1)
    IN  IF ~sizes_ok_after_solve(Len(A), Len(B)) THEN Raise("BadSizesAfterSolve")
        ELSE [err |-> "none",
              sections_rows |->
                <<[section_id |-> <<course_id, "A">>, course_id |-> course_id,
                   section_label |-> "A", size |-> Len(A)],
                  [section_id |-> <<course_id, "B">>, course_id |-> course_id,
                   section_label |-> "B", size |-> Len(B)]>>,
              section_enroll_rows |->
                [i \in 1..Len(A) |-> [section_id |-> <<course_id, "A">>, student_id |-> A[i]]]
                \o [i \in 1..Len(B) |-> [section_id |-> <<course_id, "B">>, student_id |-> B[i]]]]

\* the (course_id, student_id) table the scripts work on: the rows read,
\* stripped and deduplicated
clean_enrollments(file, order) ==
  LET raw == read_csv(file, order)
  IN  drop_duplicates(SeqOf([i \in 1..Len(raw) |-> <<raw[i][1], strip(raw[i][2])>>]))

\* Series.unique(): the values in order of first appearance
unique(s) == drop_duplicates(s)

\* the bucket of line 94
ilp_bucket(enroll) ==
  make_global_bucket(unique(SeqOf([i \in 1..Len(enroll) |-> enroll[i][2]])))

\* the studs list of line 102, for each course of corder
ilp_studs(enroll, corder) ==
  SeqOf([i \in 1..Len(corder) |-> unique(students_of(enroll, corder[i]))])

\* every sequence of solver results the loop can meet, one per course of corder
ilp_solves(studs, bucket, corder) ==
  LET upto[i \in 0..Len(corder)] ==
        IF i = 0 THEN {<<>>}
        ELSE {Append(p, r) :
                p \in upto[i - 1],
                r \in solve_ab_assignment(studs[i], bucket, corder[i])}
  IN  upto[Len(corder)]

\* build_sections_ilp(): the outcome of one run that visits the courses in
\* corder and whose solve_ab_assignment calls end as rs says
build_sections_ilp(studs_of, corder, rs) ==
  LET loop[i \in 0..Len(corder)] ==
        IF i = 0 THEN [rows |-> NoRows, models |-> 0]
        ELSE LET acc == loop[i - 1]
             IN  IF acc.rows.err # "none" THEN acc
                 ELSE LET studs == studs_of[i]
                          N     == Cardinality(Range(studs))   \* nunique, line 96
                          r     == ilp_course_rows(corder[i], N, studs, rs[i])
                      IN  IF r.err # "none"
                            THEN [rows |-> r, models |-> acc.models + rs[i].models]
                          ELSE [rows |->
                                  [err |-> "none",
                                   sections_rows |-> acc.rows.sections_rows \o r.sections_rows,
                                   section_enroll_rows |->
                                     acc.rows.section_enroll_rows \o r.section_enroll_rows],
                                models |-> acc.models + rs[i].models]
      out == loop[Len(corder)]
  IN  IF out.rows.err # "none"
        THEN [status |-> out.rows.err, saved |-> FALSE, models |-> out.models,
              sections |-> <<>>, section_enrollments |-> <<>>]
      \* an empty frame has no course_id column to sort by (line 133)
      ELSE IF Len(corder) = 0
        THEN [status |-> "KeyError", saved |-> FALSE, models |-> 0,
              sections |-> <<>>, section_enrollments |-> <<>>]
      ELSE [status |-> "ok", saved |-> TRUE, models |-> out.models,
            sections |-> SortSeq(out.rows.sections_rows, row_less),
            section_enrollments |-> drop_duplicates(out.rows.section_enroll_rows)]

\* ------------------------------------------------------------- actions
NoRun == [op |-> "none", status |-> "none", saved |-> FALSE, models |-> 0, ret |-> <<>>]

NoArgs == [course_id |-> "-", student_ids |-> <<>>, bucket |-> <<>>]

NoOverflowRun ==
  [script |-> "none", status |-> "none", returned |-> FALSE, x |-> {}, used |-> {},
   exit |-> "none", printed |-> <<>>, wrote |-> {}]

\* ------------------------------------------------- 03_build_slots.py
ROOMS_W1_4 == 10
ROOMS_W5_10 == 4

room_cap(week) == IF week <= 4 THEN ROOMS_W1_4 ELSE ROOMS_W5_10

\* ------------------------------------- Primary Assignment Engine: constants
MIN_SESSIONS == 19                      \* 04_build_model_feasible.py
FLOOR_11 == 18                          \* 11_floor18_weeklycap_max.py
CEIL == 20
MAX_PER_WEEK == 2
SOFT_FLOOR == 18                        \* 12_softfloor18_max_total.py
CAP_12 == 20
PENALTY_PER_MISSED_BELOW_18 == 5
CAP_13 == 20                            \* 13_max_total_cap20.py
FLOOR == 18                             \* 44_floor18_cap20_max_facsplit.py
CAP == 20
FLOOR_45 == 18                          \* 45_term_schedule_floor18_export.py
CAP_45 == 20

DTI_COURSE == "DTI"
DTI_PREMID_FACULTY == "Prof. Rohit Kumar"
DTI_POSTMID_FACULTY == "Prof. Rogers"

\* ---------------------------------------- Primary Assignment Engine: inputs
\* A term table is described by its courses cs (each one section "A", as the
\* ILP Sectioner writes for a course of at most MAX_CAP students), their
\* faculty fac, the courses studs[i] of student i, and for each week the
\* number of slots kept of it and their room capacity.
SixCourses ==
  [cs    |-> <<"C1", "C2", "C3", "C4", "C5", "C6">>,
   fac   |-> <<"F1", "F2", "F3", "F4", "F5", "F6">>,
   studs |-> <<{"C1", "C2"}, {"C3"}, {"C4"}, {"C5"}, {"C6"}, {"C1"}>>,
   weeks |-> <<[week |-> 5, n |-> 2, room_capacity |-> room_cap(5)]>>]

SplitFaculty ==
  [cs    |-> <<"DTI", "C2">>,
   fac   |-> <<"Prof. Rohit Kumar", "Prof. Rogers">>,
   studs |-> <<{"DTI"}, {"C2"}, {"DTI", "C2"}>>,
   weeks |-> <<[week |-> 5, n |-> 2, room_capacity |-> room_cap(5)],
               [week |-> 6, n |-> 2, room_capacity |-> room_cap(6)]>>]

SharedFaculty ==
  [cs    |-> <<"C1", "C2", "C3">>,
   fac   |-> <<"F1", "F1", "F3">>,
   studs |-> <<{"C1"}, {"C2", "C3"}, {"C3"}>>,
   weeks |-> <<[week |-> 4, n |-> 1, room_capacity |-> room_cap(4)],
               [week |-> 5, n |-> 2, room_capacity |-> 2]>>]

\* one long week, the rooms cut down to one: two unrelated sections
OneRoom ==
  [cs    |-> <<"C1", "C2">>,
   fac   |-> <<"F1", "F2">>,
   studs |-> <<{"C1"}, {"C2"}>>,
   weeks |-> <<[week |-> 1, n |-> LongWeekSlots, room_capacity |-> 1]>>]

\* one long week: two sections that share a student
SharedStudent ==
  [cs    |-> <<"C1", "C2">>,
   fac   |-> <<"F1", "F2">>,
   studs |-> <<{"C1", "C2"}, {"C1"}, {"C2"}>>,
   weeks |-> <<[week |-> 1, n |-> LongWeekSlots, room_capacity |-> room_cap(1)]>>]

\* TermWeeks weeks of two slots each: one section
TwoPerWeek ==
  [cs    |-> <<"C1">>,
   fac   |-> <<"F1">>,
   studs |-> <<{"C1"}, {"C1"}>>,
   weeks |-> [w \in 1..TermWeeks |-> [week |-> w, n |-> 2, room_capacity |-> room_cap(w)]]]

\* the split course and a course of its post-mid faculty, with no student in
\* common: one week before the handoff and one after it
HandoffFaculty ==
  [cs    |-> <<"DTI", "C2">>,
   fac   |-> <<"Prof. Rohit Kumar", "Prof. Rogers">>,
   studs |-> <<{"DTI"}, {"C2"}>>,
   weeks |-> <<[week |-> 5, n |-> 1, room_capacity |-> room_cap(5)],
               [week |-> 6, n |-> 1, room_capacity |-> room_cap(6)]>>]

\* TermWeeks weeks of two slots each but the first, which has three: one section
ThreeInOneWeek ==
  [cs    |-> <<"C1">>,
   fac   |-> <<"F1">>,
   studs |-> <<{"C1"}>>,
   weeks |-> [w \in 1..TermWeeks |->
                [week |-> w, n |-> IF w = 1 THEN 3 ELSE 2, room_capacity |-> room_cap(w)]]]

\* the split course and a course of its post-mid faculty, with no student in
\* common, over a long week before the handoff and a short one after it
HandoffTerm ==
  [cs    |-> <<"C2", "DTI">>,
   fac   |-> <<"Prof. Rogers", "Prof. Rohit Kumar">>,
   studs |-> <<{"C2"}, {"DTI"}>>,
   weeks |-> <<[week |-> 5, n |-> 16, room_capacity |-> room_cap(5)],
               [week |-> 6, n |-> 6, room_capacity |-> room_cap(6)]>>]

\* two sections that share a student, in one week with one slot less than
\* twice the floor of 18
Overloaded ==
  [cs    |-> <<"C1", "C2">>,
   fac   |-> <<"F1", "F2">>,
   studs |-> <<{"C1", "C2"}, {"C1"}, {"C2"}>>,
   weeks |-> <<[week |-> 1, n |-> 2 * FLOOR - 1, room_capacity |-> room_cap(1)]>>]

\* one section and two slots whose room capacity is patched down to 0
NoRooms ==
  [cs    |-> <<"C1">>,
   fac   |-> <<"F1">>,
   studs |-> <<{"C1"}>>,
   weeks |-> <<[week |-> 1, n |-> 2, room_capacity |-> 0]>>]

EngScenarios ==
  {SixCourses, SplitFaculty, SharedFaculty, OneRoom, SharedStudent, TwoPerWeek,
   HandoffFaculty, ThreeInOneWeek, HandoffTerm, Overloaded, NoRooms}

\* sections.csv of a term table
eng_sections(sc) ==
  SeqOf([j \in 1..Len(sc.cs) |->
           [section_id |-> <<sc.cs[j], "A">>, course_id |-> sc.cs[j], section_label |-> "A",
            size |-> Cardinality({i \in DOMAIN sc.studs : sc.cs[j] \in sc.studs[i]})]])

\* section_enrollments.csv of a term table: section by section, ids ascending
eng_enroll(sc) ==
  LET nS   == Len(sc.studs)
      all  == SeqOf([p \in 1..(Len(sc.cs) * nS) |-> <<((p - 1) \div nS) + 1, ((p - 1) % nS) + 1>>])
      kept == SelectSeq(all, LAMBDA t : sc.cs[t[1]] \in sc.studs[t[2]])
  IN  SeqOf([p \in 1..Len(kept) |->
               [section_id |-> <<sc.cs[kept[p][1]], "A">>, student_id |-> <<kept[p][2], 0>>]])

\* courses.csv of a term table
eng_courses(sc) ==
  SeqOf([j \in 1..Len(sc.cs) |-> [course_id |-> sc.cs[j], faculty_raw |-> sc.fac[j]]])

\* build_slots(), cut down to the first n slots of each week of the table
build_slots(weeks) ==
  LET upto[i \in 0..Len(weeks)] ==
        IF i = 0 THEN <<>>
        ELSE upto[i - 1] \o
             [k \in 1..weeks[i].n |->
                [slot_id |-> <<weeks[i].week, k>>, week |-> weeks[i].week,
                 room_capacity |-> weeks[i].room_capacity]]
  IN  SeqOf(upto[Len(weeks)])

\* ---------------------------------- Primary Assignment Engine: the scripts
\* the tables as the scripts index them
section_ids == unique(SeqOf([i \in 1..Len(sections) |-> sections[i].section_id]))

slot_ids == unique(SeqOf([i \in 1..Len(slots) |-> slots[i].slot_id]))

\* dict(zip(keys, values)): a repeated key keeps the value zipped last
dict_zip(rows, key, val) ==
  FcnOf([k \in {r[key] : r \in Range(rows)} |->
           rows[Max({i \in DOMAIN rows : rows[i][key] = k})][val]])

sec_to_course == dict_zip(sections, "section_id", "course_id")

course_to_faculty == dict_zip(courses, "course_id", "faculty_raw")

slot_capacity == dict_zip(slots, "slot_id", "room_capacity")

slot_to_week == dict_zip(slots, "slot_id", "week")

\* enroll.groupby("student_id")["section_id"].apply(list).to_dict()
student_to_sections ==
  FcnOf([sid \in {r.student_id : r \in Range(section_enrollments)} |->
           LET mine == SelectSeq(section_enrollments, LAMBDA r : r.student_id = sid)
           IN  SeqOf([i \in 1..Len(mine) |-> mine[i].section_id])])

\* mutant of get_faculty: the handoff comes a week early
get_faculty_week_4(course_id, week) ==
  IF course_id = DTI_COURSE
    THEN (IF week < 5 THEN DTI_PREMID_FACULTY ELSE DTI_POSTMID_FACULTY)
  ELSE course_to_faculty[course_id]

\* mutant of get_faculty: the handoff comes a week late
get_faculty_week_6(course_id, week) ==
  IF course_id = DTI_COURSE
    THEN (IF week <= 6 THEN DTI_PREMID_FACULTY ELSE DTI_POSTMID_FACULTY)
  ELSE course_to_faculty[course_id]

\* get_faculty(course_id, week) of the split-faculty scripts
get_faculty(course_id, week) ==
  IF course_id = DTI_COURSE
    THEN (IF week <= 5 THEN DTI_PREMID_FACULTY ELSE DTI_POSTMID_FACULTY)
  ELSE course_to_faculty[course_id]

\* mutant of room_capacity_ok: one section more than the rooms is let in
room_capacity_off_by_one(col, cap) == Cardinality(col) <= cap + 1

\* mutant of student_conflict_ok: students with two sections are skipped too
student_conflict_skips_two(col) ==
  \A sid \in DOMAIN student_to_sections :
    LET secs == student_to_sections[sid]
    IN  Len(secs) <= 2 \/ Cardinality({i \in DOMAIN secs : secs[i] \in col}) <= 1

\* The constraints on one slot, stated on col, the set of sections sec with
\* x[(sec, sl)] = 1.
\* sum(x[(sec, sl)] for sec in section_ids) <= cap
room_capacity_ok(col, cap) == Cardinality(col) <= cap

\* for every student with len(secs) > 1: sum(x[(sec, sl)] for sec in secs) <= 1
student_conflict_ok(col) ==
  \A sid \in DOMAIN student_to_sections :
    LET secs == student_to_sections[sid]
    IN  Len(secs) <= 1 \/ Cardinality({i \in DOMAIN secs : secs[i] \in col}) <= 1

\* for every faculty of faculty_to_sections: sum(x[(sec, sl)] for sec in secs) <= 1
faculty_conflict_ok(col) ==
  \A s1, s2 \in col :
    course_to_faculty[sec_to_course[s1]] = course_to_faculty[sec_to_course[s2]] => s1 = s2

\* faculty_groups of a slot of the given week: the sections of each resolved
\* faculty, in the order of section_ids
faculty_groups(week) ==
  FcnOf([fac \in {get_faculty(sec_to_course[sec], week) : sec \in Range(section_ids)} |->
           SelectSeq(section_ids, LAMBDA sec : get_faculty(sec_to_course[sec], week) = fac)])

\* for every faculty of the slot's faculty_groups: sum(x[(sec, sl)] for sec in secs) <= 1
faculty_split_ok(col, week) ==
  \A groups \in {faculty_groups(week)} :
    \A fac \in DOMAIN groups :
      Cardinality({i \in DOMAIN groups[fac] : groups[fac][i] \in col}) <= 1

\* what each script puts into its CpModel
NoLimits ==
  [has_floor |-> FALSE, floor |-> 0, has_cap |-> FALSE, cap |-> 0,
   has_week_cap |-> FALSE, per_week |-> 0, split |-> FALSE,
   objective |-> "total", soft_floor |-> 0, penalty |-> 0]

cfg_04 == [NoLimits EXCEPT !.has_floor = TRUE, !.floor = MIN_SESSIONS, !.objective = "none"]

cfg_08 == NoLimits

cfg_11 ==
  [NoLimits EXCEPT !.has_floor = TRUE, !.floor = FLOOR_11, !.has_cap = TRUE, !.cap = CEIL,
                   !.has_week_cap = TRUE, !.per_week = MAX_PER_WEEK]

cfg_12 ==
  [NoLimits EXCEPT !.has_cap = TRUE, !.cap = CAP_12, !.objective = "soft_floor",
                   !.soft_floor = SOFT_FLOOR, !.penalty = PENALTY_PER_MISSED_BELOW_18]

\* mutant of cfg_13: the floor of 18 is made hard
cfg_13_hard_floor ==
  [NoLimits EXCEPT !.has_floor = TRUE, !.floor = SOFT_FLOOR, !.has_cap = TRUE, !.cap = CAP_13]

cfg_13 == [NoLimits EXCEPT !.has_cap = TRUE, !.cap = CAP_13]

\* mutant of cfg_44: the floor is one session lower
cfg_44_floor_17 ==
  [NoLimits EXCEPT !.has_floor = TRUE, !.floor = FLOOR - 1, !.has_cap = TRUE, !.cap = CAP,
                   !.split = TRUE]

cfg_44 ==
  [NoLimits EXCEPT !.has_floor = TRUE, !.floor = FLOOR, !.has_cap = TRUE, !.cap = CAP,
                   !.split = TRUE]

\* mutant of cfg_45: the floor is one session lower
cfg_45_floor_17 ==
  [NoLimits EXCEPT !.has_floor = TRUE, !.floor = FLOOR_45 - 1, !.has_cap = TRUE,
                   !.cap = CAP_45, !.split = TRUE]

cfg_45 ==
  [NoLimits EXCEPT !.has_floor = TRUE, !.floor = FLOOR_45, !.has_cap = TRUE, !.cap = CAP_45,
                   !.split = TRUE]

\* the constraints of a script on one slot
column_ok(cfg, col, week, cap) ==
  /\ room_capacity_ok(col, cap)
  /\ IF cfg.split THEN faculty_split_ok(col, week) ELSE faculty_conflict_ok(col)
  /\ student_conflict_ok(col)

\* the constraints of a script on tot, the sessions of one section
sessions_ok(cfg, tot) ==
  /\ cfg.has_floor => tot >= cfg.floor
  /\ cfg.has_cap => tot <= cfg.cap

\* the value of the objective for per-section totals tots (a sequence), with
\* every shortfall at its least value max(0, SOFT_FLOOR - tot)
RECURSIVE SumSeq(_)
SumSeq(s) == IF s = <<>> THEN 0 ELSE s[1] + SumSeq(Tail(s))

objective_value(cfg, tots) ==
  IF cfg.objective = "none" THEN 0
  ELSE IF cfg.objective = "total" THEN SumSeq(tots)
  ELSE SumSeq(tots)
       - cfg.penalty * SumSeq([i \in DOMAIN tots |->
                                 IF cfg.soft_floor > tots[i] THEN cfg.soft_floor - tots[i] ELSE 0])

\* ---------------------------------- Primary Assignment Engine: the solver
\* The constraints and the objective of every script are unchanged when the
\* slots of one week with one room capacity are permuted.  The solver model
\* therefore enumerates, for each such class of slots, how many of its slots
\* carry each admissible column (a bag of columns), and returns of the
\* assignments with the same bags the two that lay the columns out over the
\* slots in the order of all_columns, or in the reverse order.

\* every set of sections, in a fixed order
all_columns ==
  LET S == Len(section_ids)
  IN  SeqOf([m \in 1..(2 ^ S) |->
               {section_ids[j] : j \in {j \in 1..S : ((m - 1) \div (2 ^ (j - 1))) % 2 = 1}}])

\* the classes of slots: week, room capacity, the slots in slot order, and the
\* columns the script's constraints admit in such a slot
slot_classes(cfg) ==
  LET ids  == slot_ids
      week == slot_to_week
      capa == slot_capacity
      cols == all_columns
      keys == unique(SeqOf([i \in 1..Len(ids) |-> <<week[ids[i]], capa[ids[i]]>>]))
  IN  SeqOf([c \in 1..Len(keys) |->
               [week  |-> keys[c][1],
                cap   |-> keys[c][2],
                slots |-> SelectSeq(ids, LAMBDA sl : <<week[sl], capa[sl]>> = keys[c]),
                pats  |-> SelectSeq(cols, LAMBDA col : column_ok(cfg, col, keys[c][1], keys[c][2]))]])

\* every way to write n as a sum of m counts
RECURSIVE bags(_, _)
bags(n, m) ==
  IF m = 0 THEN (IF n = 0 THEN {<<>>} ELSE {})
  ELSE UNION {{<<k>> \o b : b \in bags(n - k, m - 1)} : k \in 0..n}

\* the columns of the slots of one class, in slot order, for a bag over pats
spread(bag, pats, dir) ==
  LET rep[i \in 0..Len(bag)] ==
        IF i = 0 THEN <<>> ELSE rep[i - 1] \o [k \in 1..bag[i] |-> pats[i]]
      cols == SeqOf(rep[Len(bag)])
  IN  IF dir = "first" THEN cols ELSE Reverse(cols)

\* the part of the assignment x (the set of (sec, sl) with x[(sec, sl)] = 1)
\* on the slots of one class
class_layout(cls, bag, dir) ==
  UNION {UNION {{<<sec, cls.slots[k]>> : sec \in cols[k]} : k \in 1..Len(cols)} :
           cols \in {spread(bag, cls.pats, dir)}}

\* the assignment x that lays out the bags bs, one per class of slots
layout(classes, bs, dir) ==
  UNION {class_layout(classes[c], bs[c], dir) : c \in 1..Len(classes)}

\* mutant of week_cap_ok: one session more a week is let in
week_cap_off_by_one(cfg, classes, xx) ==
  cfg.has_week_cap =>
    \A sec \in {p[1] : p \in xx}, c \in 1..Len(classes) :
      Cardinality({p \in xx : /\ p[1] = sec
                              /\ \E d \in 1..Len(classes) :
                                   /\ classes[d].week = classes[c].week
                                   /\ p[2] \in Range(classes[d].slots)})
        <= cfg.per_week + 1

\* sum(x[(sec, sl)] for sl in slots_by_week[w]) <= MAX_PER_WEEK, for all sec, w
week_cap_ok(cfg, classes, xx) ==
  cfg.has_week_cap =>
    \A sec \in {p[1] : p \in xx}, c \in 1..Len(classes) :
      Cardinality({p \in xx : /\ p[1] = sec
                              /\ \E d \in 1..Len(classes) :
                                   /\ classes[d].week = classes[c].week
                                   /\ p[2] \in Range(classes[d].slots)})
        <= cfg.per_week

\* accepted statuses: status in (cp_model.OPTIMAL, cp_model.FEASIBLE)
engine_accepts(status) == status \in {"OPTIMAL", "FEASIBLE"}

\* the bags, one per class, that meet the constraints of a script, each with
\* the sessions tots it gives the sections
engine_feasible(cfg, secs, classes) ==
  LET S    == Len(secs)
      K    == Len(classes)
      \* the sessions a section can still get in the classes after c
      room(c) ==
        IF cfg.has_week_cap /\ Len(classes[c].slots) > cfg.per_week THEN cfg.per_week
        ELSE Len(classes[c].slots)
      rest == SeqOf([c \in 1..K |-> SumSeq([d \in 1..(K - c) |-> room(c + d)])])
      \* the bags of class c with the sessions they give each section
      choices(c) ==
        {[bag |-> b,
          cnt |-> SeqOf([j \in 1..S |->
                    SumSeq([i \in 1..Len(b) |->
                              IF secs[j] \in classes[c].pats[i] THEN b[i] ELSE 0])])] :
         b \in bags(Len(classes[c].slots), Len(classes[c].pats))}
      \* the bags of the classes 1..c that can still meet the session bounds
      upto[c \in 0..K] ==
        IF c = 0 THEN {[bs |-> <<>>, tots |-> SeqOf([j \in 1..S |-> 0])]}
        ELSE {q \in {[bs   |-> Append(p.bs, ch.bag),
                      tots |-> SeqOf([j \in 1..S |-> p.tots[j] + ch.cnt[j]])] :
                       p \in upto[c - 1], ch \in choices(c)} :
                \A j \in 1..S :
                  /\ cfg.has_cap => q.tots[j] <= cfg.cap
                  /\ cfg.has_floor => q.tots[j] + rest[c] >= cfg.floor}
  IN  {q \in upto[K] :
         /\ \A j \in 1..S : sessions_ok(cfg, q.tots[j])
         /\ week_cap_ok(cfg, classes, layout(classes, q.bs, "first"))}

\* the outcomes with an assignment: OPTIMAL with one of the greatest objective
\* value opt, FEASIBLE with another one within EngSlack of it
engine_solutions(cfg, classes, feas, opt) ==
  {[status |-> IF objective_value(cfg, q.tots) = opt THEN "OPTIMAL" ELSE "FEASIBLE",
    x      |-> layout(classes, q.bs, dir)] :
     q \in {r \in feas : objective_value(cfg, r.tots) >= opt - EngSlack},
     dir \in {"first", "last"}}

\* solver.Solve(model) for the model a script builds: every outcome, as the
\* status and the values of x.  OPTIMAL comes with any assignment that meets
\* the constraints and has the greatest objective value, FEASIBLE (time limit)
\* with one that meets them and is not proved optimal, of which the model
\* returns those within EngSlack of the optimum; with no objective every
\* solution is optimal.  INFEASIBLE and UNKNOWN come with no assignment.
engine_solve(cfg) ==
  UNION {UNION {IF feas = {}
                  THEN {[status |-> "INFEASIBLE", x |-> {}], [status |-> "UNKNOWN", x |-> {}]}
                ELSE {[status |-> "UNKNOWN", x |-> {}]}
                     \cup UNION {engine_solutions(cfg, classes, feas, opt) :
                                   opt \in {Max({objective_value(cfg, q.tots) : q \in feas})}} :
                feas \in {engine_feasible(cfg, section_ids, classes)}} :
         classes \in {slot_classes(cfg)}}

\* ---------------------------------- Primary Assignment Engine: the exports
\* string order of the course ids of the term tables
CourseNames == <<"C1", "C2", "C3", "C4", "C5", "C6", "DTI">>

course_rank(c) == CHOOSE i \in DOMAIN CourseNames : CourseNames[i] = c

\* string order of section ids (course id, "_", label)
section_less(a, b) ==
  \/ course_rank(a[1]) < course_rank(b[1])
  \/ a[1] = b[1] /\ label_rank(a[2]) < label_rank(b[2])

\* the day and the start of the k-th slot of a week in build_slots(): six
\* slots on each of Mon..Sat, then four on Sun; sort_values orders the day
\* names as strings (Fri, Mon, Sat, Sun, Thu, Tue, Wed) and the starts by time
DayNameRank == <<2, 6, 7, 5, 1, 3, 4>>

slot_day(k) == IF k <= 36 THEN ((k - 1) \div 6) + 1 ELSE 7

slot_start(k) == IF k <= 36 THEN ((k - 1) % 6) + 1 ELSE k - 36

\* the rows 44_floor18_cap20_max_facsplit.py saves for the values xx of x,
\* sorted by sessions, course_id, section_id
section_sessions_rows(xx) ==
  LET rows == SeqOf([i \in 1..Len(section_ids) |->
                       [section_id |-> section_ids[i],
                        course_id  |-> sec_to_course[section_ids[i]],
                        sessions   |-> Cardinality({p \in xx : p[1] = section_ids[i]})]])
  IN  SortSeq(rows, LAMBDA a, b :
                \/ a.sessions < b.sessions
                \/ a.sessions = b.sessions /\ course_rank(a.course_id) < course_rank(b.course_id)
                \/ /\ a.sessions = b.sessions
                   /\ a.course_id = b.course_id
                   /\ section_less(a.section_id, b.section_id))

\* the rows of term_section_sessions_floor18.csv, in the order of section_ids
term_sessions_rows(xx) ==
  SeqOf([i \in 1..Len(section_ids) |->
           [section_id |-> section_ids[i],
            course_id  |-> sec_to_course[section_ids[i]],
            sessions   |-> Cardinality({p \in xx : p[1] = section_ids[i]})]])

\* the rows of term_schedule_floor18.csv for the values xx of x: one row per
\* x[(sec, sl)] = 1 with the faculty of the slot's week, sorted by week, day,
\* start and section_id, the rooms numbered in that order within each slot
term_schedule_rows(xx) ==
  LET week == slot_to_week
      one(sec, sl) ==
        [slot_id     |-> sl,
         week        |-> week[sl],
         section_id  |-> sec,
         course_id   |-> sec_to_course[sec],
         faculty     |-> get_faculty(sec_to_course[sec], week[sl]),
         room_number |-> 1 + Cardinality({q \in xx : q[2] = sl /\ section_less(q[1], sec)})]
      L    == Len(slot_ids)
      all  == SeqOf([i \in 1..(Len(section_ids) * L) |->
                       <<section_ids[((i - 1) \div L) + 1], slot_ids[((i - 1) % L) + 1]>>])
      kept == SelectSeq(all, LAMBDA p : p \in xx)
      rows == SeqOf([i \in 1..Len(kept) |-> one(kept[i][1], kept[i][2])])
      key(r) == <<r.week, DayNameRank[slot_day(r.slot_id[2])], slot_start(r.slot_id[2])>>
  IN  SortSeq(rows, LAMBDA a, b :
                \/ key(a)[1] < key(b)[1]
                \/ key(a)[1] = key(b)[1] /\ key(a)[2] < key(b)[2]
                \/ key(a)[1] = key(b)[1] /\ key(a)[2] = key(b)[2] /\ key(a)[3] < key(b)[3]
                \/ key(a) = key(b) /\ section_less(a.section_id, b.section_id))

\* the lines a script prints about the status of its solve; val is the number
\* the lines carry (the total of the sessions, the days used or offered)
status_lines(script, status, val) ==
  LET ok == engine_accepts(status)
  IN  IF script = "04_build_model_feasible"
        THEN <<IF ok THEN <<"FEASIBLE">> ELSE <<"INFEASIBLE">>, <<"Status:", status>>>>
      ELSE IF script = "08_max_capacity_model"
        THEN IF ok THEN <<<<"MAX TOTAL SESSIONS:", val>>>> ELSE <<<<"Could not solve">>>>
      ELSE IF script = "11_floor18_weeklycap_max"
        THEN IF ok THEN <<<<"Solution found.">>, <<"Status:", status>>>>
             ELSE <<<<"No solution found.">>, <<"Status:", status>>>>
      ELSE IF script = "12_softfloor18_max_total"
        THEN IF ok THEN <<<<"Solution found.">>, <<"Status:", status>>>>
             ELSE <<<<"No solution.">>, <<"Status:", status>>>>
      ELSE IF script = "13_max_total_cap20"
        THEN IF ok THEN <<<<status>>, <<"Max total sessions:", val>>>>
             ELSE <<<<"No solution.">>, <<"Status:", status>>>>
      ELSE IF script = "44_floor18_cap20_max_facsplit"
        THEN IF ok THEN <<<<status>>, <<"Total scheduled sessions:", val>>>>
             ELSE <<<<"No solution.">>, <<"Status:", status>>>>
      ELSE IF script = "45_term_schedule_floor18_export"
        THEN IF ok THEN <<<<status>>, <<"Total scheduled sessions:", val>>>>
             ELSE <<<<"No solution. Status:", status>>>>
      ELSE IF script = "61_solve_contingent_days_min"
        THEN IF ok THEN <<<<status>>, <<"Contingent days used:", val>>>>
             ELSE <<<<"No feasible solution even with", val, "contingent days.">>,
                    <<"Status:", status>>>>
      ELSE IF ok THEN <<<<"Solution found">>, <<"Contingent days used:", val>>>>
           ELSE <<<<"No feasible solution">>>>

\* the tables a script saves once its solve is accepted
saved_tables(script) ==
  IF script = "11_floor18_weeklycap_max" THEN {"section_sessions_floor18_weeklycap_max.csv"}
  ELSE IF script = "12_softfloor18_max_total" THEN {"section_sessions_softfloor18_max.csv"}
  ELSE IF script = "44_floor18_cap20_max_facsplit"
    THEN {"section_sessions_floor18_cap20_facsplit.csv"}
  ELSE IF script = "45_term_schedule_floor18_export"
    THEN {"term_schedule_floor18.csv", "term_section_sessions_floor18.csv"}
  ELSE IF script = "61_solve_contingent_days_min" THEN {"contingent_schedule.csv"}
  ELSE {}

\* ------------------------------------------------ the Overflow Scheduler
\* 60_build_contingent_slots.py
ROOM_CAP == 10

\* 50_contingent_day_minimization.py
MAX_DAYS == 5
SLOTS_PER_DAY == 7
ROOMS == 10

\* 61_solve_contingent_days_min.py
CAP_TOTAL == 20

\* An overflow table is described by its courses cs (each one section "A"),
\* their faculty fac, the courses studs[i] of student i, the sessions the
\* primary stage gave each section (ascending, as the file is sorted), and the
\* days, slots a day and room capacity of contingent_slots.csv.
\* a section with 15 sessions beside one that has all 20
PendingFive ==
  [cs |-> <<"C1", "C2">>, fac |-> <<"F1", "F2">>, studs |-> <<{"C1"}, {"C2"}>>,
   sessions |-> <<15, 20>>, days |-> 2, per_day |-> 3, room_cap |-> ROOM_CAP]

\* two pending sections that share a student
PendingShared ==
  [cs |-> <<"C1", "C2">>, fac |-> <<"F1", "F2">>, studs |-> <<{"C1", "C2"}, {"C1"}>>,
   sessions |-> <<18, 19>>, days |-> MaxCDays, per_day |-> 2, room_cap |-> ROOM_CAP]

\* three unrelated pending sections, the rooms of the pool cut down to two
PendingTwoRooms ==
  [cs |-> <<"C1", "C2", "C3">>, fac |-> <<"F1", "F2", "F3">>,
   studs |-> <<{"C1"}, {"C2"}, {"C3"}>>,
   sessions |-> <<19, 19, 19>>, days |-> 1, per_day |-> 2, room_cap |-> 2]

\* the split course and two courses of its post-mid faculty, no student in common
PendingHandoff ==
  [cs |-> <<"C2", "C3", "DTI">>,
   fac |-> <<"Prof. Rogers", "Prof. Rogers", "Prof. Rohit Kumar">>,
   studs |-> <<{"C2"}, {"C3"}, {"DTI"}>>,
   sessions |-> <<19, 19, 19>>, days |-> 1, per_day |-> 2, room_cap |-> ROOM_CAP]

\* nothing pending
PendingNone ==
  [cs |-> <<"C1">>, fac |-> <<"F1">>, studs |-> <<{"C1"}>>,
   sessions |-> <<20>>, days |-> 1, per_day |-> 1, room_cap |-> ROOM_CAP]

OvfScenarios == {PendingFive, PendingShared, PendingTwoRooms, PendingHandoff, PendingNone}

\* section_sessions_floor18_cap20_facsplit.csv of an overflow table
ovf_base(sc) ==
  SeqOf([j \in 1..Len(sc.cs) |->
           [section_id |-> <<sc.cs[j], "A">>, course_id |-> sc.cs[j],
            sessions |-> sc.sessions[j]]])

\* 60_build_contingent_slots.py main(), cut down to the first days and the
\* first slots of each day; the slot counter runs on across the days
build_contingent_slots(days, per_day, cap) ==
  SeqOf([i \in 1..(days * per_day) |->
           [c_slot_id |-> <<((i - 1) \div per_day) + 1, i>>,
            c_day     |-> ((i - 1) \div per_day) + 1,
            room_cap  |-> cap]])

\* the tables of 61_solve_contingent_days_min.py
deficit_df ==
  SelectSeq(base_sessions, LAMBDA r : CAP_TOTAL - r.sessions > 0)

total_need == SumSeq([i \in 1..Len(deficit_df) |-> CAP_TOTAL - deficit_df[i].sessions])

ovf_section_ids == SeqOf([i \in 1..Len(deficit_df) |-> deficit_df[i].section_id])

\* mutant of deficit: one session short of the target
deficit_one_short ==
  FcnOf([sec \in Range(ovf_section_ids) |->
           CAP_TOTAL - 1
           - deficit_df[Max({i \in DOMAIN deficit_df : deficit_df[i].section_id = sec})].sessions])

\* dict(zip(section_id, deficit)): a repeated key keeps the value zipped last
deficit ==
  FcnOf([sec \in Range(ovf_section_ids) |->
           CAP_TOTAL - deficit_df[Max({i \in DOMAIN deficit_df : deficit_df[i].section_id = sec})].sessions])

\* student_to_sections with only the deficit sections kept, and the students
\* left with none deleted
ovf_student_to_sections ==
  LET kept == FcnOf([sid \in DOMAIN student_to_sections |->
                       SelectSeq(student_to_sections[sid], LAMBDA sec : sec \in DOMAIN deficit)])
  IN  FcnOf([sid \in {t \in DOMAIN kept : kept[t] # <<>>} |-> kept[sid]])

cslot_rows ==
  SeqOf([i \in 1..Len(cslots) |->
           [id |-> cslots[i].c_slot_id, day |-> cslots[i].c_day, cap |-> cslots[i].room_cap]])

\* the pool of 50_contingent_day_minimization.py: range(MAX_DAYS) x range(SLOTS_PER_DAY)
fixed_pool_rows ==
  SeqOf([i \in 1..(MAX_DAYS * SLOTS_PER_DAY) |->
           [id  |-> <<(i - 1) \div SLOTS_PER_DAY, (i - 1) % SLOTS_PER_DAY>>,
            day |-> (i - 1) \div SLOTS_PER_DAY,
            cap |-> ROOMS]])

\* mutant of ovf_room_ok: one section more than the rooms is let in
ovf_room_off_by_one(col, cap) == Cardinality(col) <= cap + 1

\* The constraints on one overflow slot, stated on col, the set of sections s
\* with x[(s, cs)] = 1.
ovf_room_ok(col, cap) == Cardinality(col) <= cap

ovf_student_ok(col) ==
  \A sid \in DOMAIN ovf_student_to_sections :
    LET secs == ovf_student_to_sections[sid]
    IN  Len(secs) <= 1 \/ Cardinality({i \in DOMAIN secs : secs[i] \in col}) <= 1

\* faculty_to_secs groups the deficit sections by course_to_faculty[sec_to_course[s]]
ovf_faculty_ok(col) ==
  \A s1, s2 \in col :
    course_to_faculty[sec_to_course[s1]] = course_to_faculty[sec_to_course[s2]] => s1 = s2

ovf_column_ok(col, cap) ==
  /\ ovf_room_ok(col, cap)
  /\ ovf_student_ok(col)
  /\ ovf_faculty_ok(col)

\* mutant of link_ok: only the first slot of the pool is linked to its day
link_first_only(xx, y, rows) ==
  \A p \in xx : rows[1].id = p[2] => rows[1].day \in y

\* x[(s, cs)] <= y[d] for every slot cs of day d
link_ok(xx, y, rows) ==
  \A p \in xx : \A i \in DOMAIN rows : rows[i].id = p[2] => rows[i].day \in y

\* every set of the sections ids, in a fixed order that starts with the empty set
columns_of(ids) ==
  LET S == Len(ids)
  IN  SeqOf([m \in 1..(2 ^ S) |->
               {ids[j] : j \in {j \in 1..S : ((m - 1) \div (2 ^ (j - 1))) % 2 = 1}}])

\* the classes of overflow slots: day, room capacity, the slots in file order,
\* and the columns the constraints admit in such a slot
ovf_classes(rows, ids) ==
  LET cols == columns_of(ids)
      keys == unique(SeqOf([i \in 1..Len(rows) |-> <<rows[i].day, rows[i].cap>>]))
  IN  SeqOf([c \in 1..Len(keys) |->
               LET mine == SelectSeq(rows, LAMBDA r : <<r.day, r.cap>> = keys[c])
               IN  [week  |-> keys[c][1],
                    cap   |-> keys[c][2],
                    slots |-> SeqOf([i \in 1..Len(mine) |-> mine[i].id]),
                    pats  |-> SelectSeq(cols, LAMBDA col : ovf_column_ok(col, keys[c][2]))]])

\* every sequence of m counts whose sum is at most k
RECURSIVE sums_upto(_, _)
sums_upto(k, m) ==
  IF m = 0 THEN {<<>>}
  ELSE UNION {{<<a>> \o b : b \in sums_upto(k - a, m - 1)} : a \in 0..k}

\* the bags over m columns for n slots in which at most k slots are not empty
\* (the first column is the empty one)
column_bags(n, m, k) ==
  {<<n - SumSeq(b)>> \o b : b \in sums_upto(IF n < k THEN n ELSE k, m - 1)}

\* the bags, one per class, that give every section exactly its deficit
ovf_feasible(ids, need, classes) ==
  LET S == Len(ids)
      K == Len(classes)
      all == SumSeq([j \in 1..S |-> need[ids[j]]])
      choices(c) ==
        {[bag |-> b,
          cnt |-> SeqOf([j \in 1..S |->
                    SumSeq([i \in 1..Len(b) |->
                              IF ids[j] \in classes[c].pats[i] THEN b[i] ELSE 0])])] :
         b \in column_bags(Len(classes[c].slots), Len(classes[c].pats), all)}
      upto[c \in 0..K] ==
        IF c = 0 THEN {[bs |-> <<>>, tots |-> SeqOf([j \in 1..S |-> 0])]}
        ELSE {q \in {[bs   |-> Append(p.bs, ch.bag),
                      tots |-> SeqOf([j \in 1..S |-> p.tots[j] + ch.cnt[j]])] :
                       p \in upto[c - 1], ch \in choices(c)} :
                \A j \in 1..S : q.tots[j] <= need[ids[j]]}
  IN  {q \in upto[K] : \A j \in 1..S : q.tots[j] = need[ids[j]]}

\* the outcomes with an assignment: x with the values of y that the linking
\* constraint admits; OPTIMAL with the least number opt of days, FEASIBLE with
\* up to OvfSlack more
ovf_solutions(rows, classes, feas, days, opt) ==
  UNION {UNION {{[status |-> IF Cardinality(y) = opt THEN "OPTIMAL" ELSE "FEASIBLE",
                  x |-> xx, y |-> y] :
                   y \in {d \in SUBSET days : link_ok(xx, d, rows) /\ Cardinality(d) <= opt + OvfSlack}} :
                xx \in {layout(classes, q.bs, "first"), layout(classes, q.bs, "last")}} :
         q \in feas}

\* the least value of sum(y) over the assignments that meet the constraints
ovf_optimum(rows, classes, feas, days) ==
  Min({Min({Cardinality(d) : d \in {e \in SUBSET days : link_ok(xx, e, rows)}}) :
         xx \in {layout(classes, q.bs, "first") : q \in feas}})

\* solver.Solve(model) for the model of an overflow script on the pool rows:
\* every outcome, as the status and the values of x and y
ovf_solve(rows, ids, need) ==
  UNION {UNION {IF feas = {}
                  THEN {[status |-> "INFEASIBLE", x |-> {}, y |-> {}],
                        [status |-> "UNKNOWN", x |-> {}, y |-> {}]}
                ELSE {[status |-> "UNKNOWN", x |-> {}, y |-> {}]}
                     \cup UNION {ovf_solutions(rows, classes, feas, days, opt) :
                                   opt \in {ovf_optimum(rows, classes, feas, days)}} :
                feas \in {ovf_feasible(ids, need, classes)},
                days \in {{rows[i].day : i \in DOMAIN rows}}} :
         classes \in {ovf_classes(rows, ids)}}

\* what main() of an overflow script reports after solver.Solve(model); either
\* way it prints its lines and returns
overflow_run(script, r) ==
  [script |-> script, status |-> r.status, returned |-> engine_accepts(r.status),
   x    |-> IF engine_accepts(r.status) THEN r.x ELSE {},
   used |-> IF engine_accepts(r.status) THEN r.y ELSE {},
   exit |-> "returned",
   printed |-> status_lines(script, r.status,
                            IF engine_accepts(r.status) THEN Cardinality(r.y)
                            ELSE Cardinality({cslots[i].c_day : i \in DOMAIN cslots})),
   wrote |-> IF engine_accepts(r.status) THEN saved_tables(script) ELSE {}]

\* pd.read_csv of a table that is not on disk
file_not_found(script) ==
  [script |-> script, status |-> "FileNotFoundError", returned |-> FALSE, x |-> {}, used |-> {},
   exit |-> "raised", printed |-> <<>>, wrote |-> {}]

\* the early return of 61_solve_contingent_days_min.py when no section is short
nothing_to_schedule ==
  [script |-> "61_solve_contingent_days_min", status |-> "nothing to schedule",
   returned |-> FALSE, x |-> {}, used |-> {},
   exit |-> "returned", printed |-> <<<<"Nothing to schedule.">>>>, wrote |-> {}]

\* the rows of contingent_schedule.csv for the values xx of x: one row per
\* x[(s, cs)] = 1 with the course's faculty, sorted by day number, start and
\* section_id (the slot counter of the pool runs on in the order of the starts)
contingent_schedule_rows(xx) ==
  LET ids  == ovf_section_ids
      L    == Len(cslots)
      all  == SeqOf([i \in 1..(Len(ids) * L) |-> <<ids[((i - 1) \div L) + 1], ((i - 1) % L) + 1>>])
      kept == SelectSeq(all, LAMBDA p : <<p[1], cslots[p[2]].c_slot_id>> \in xx)
      rows == SeqOf([i \in 1..Len(kept) |->
                       [section_id |-> kept[i][1],
                        course_id  |-> sec_to_course[kept[i][1]],
                        faculty    |-> course_to_faculty[sec_to_course[kept[i][1]]],
                        c_slot_id  |-> cslots[kept[i][2]].c_slot_id,
                        c_day      |-> cslots[kept[i][2]].c_day,
                        room_cap   |-> cslots[kept[i][2]].room_cap]])
  IN  SortSeq(rows, LAMBDA a, b :
                \/ a.c_day < b.c_day
                \/ a.c_day = b.c_day /\ a.c_slot_id[2] < b.c_slot_id[2]
                \/ a.c_slot_id = b.c_slot_id /\ section_less(a.section_id, b.section_id))

\* ------------------------------------------- engine runs: one per behaviour
NoEngineRun ==
  [script |-> "none", status |-> "none", returned |-> FALSE, x |-> {},
   shortfall |-> <<>>, total_shortfall |-> 0,
   exit |-> "none", printed |-> <<>>, wrote |-> {}]

EngInit ==
  /\ \E sc \in EngScenarios :
       /\ sections = eng_sections(sc)
       /\ section_enrollments = eng_enroll(sc)
       /\ courses = eng_courses(sc)
       /\ slots = build_slots(sc.weeks)
  /\ enrollments = {}
  /\ last_run = NoRun
  /\ args = NoArgs
  /\ engine = NoEngineRun
  /\ base_sessions = <<>>
  /\ cslots = <<>>
  /\ overflow = NoOverflowRun
  /\ term_schedule = NoFile
  /\ term_section_sessions = NoFile
  /\ contingent_schedule = NoFile
  /\ runs = <<>>

\* The values of the shortfall variables of 12_softfloor18_max_total.py in an
\* outcome r of its solve.  The model bounds each sf only from below
\* (sf >= SOFT_FLOOR - tot, sf >= 0, sf <= SOFT_FLOOR), and total_shortfall is
\* their sum; the objective makes every sf least in an OPTIMAL outcome, and
\* a FEASIBLE one may carry any values within the bounds, of which the model
\* returns the least ones and those with one sf up to SfSlack above.
shortfall_values(r) ==
  LET secs  == Range(section_ids)
      tot   == FcnOf([sec \in secs |-> Cardinality({p \in r.x : p[1] = sec})])
      least == FcnOf([sec \in secs |->
                        IF SOFT_FLOOR > tot[sec] THEN SOFT_FLOOR - tot[sec] ELSE 0])
      total(sf) == SumSeq([i \in 1..Len(section_ids) |-> sf[section_ids[i]]])
  IN  IF ~engine_accepts(r.status)
        THEN {[status |-> r.status, shortfall |-> <<>>, total_shortfall |-> 0]}
      ELSE {[status |-> r.status, shortfall |-> least, total_shortfall |-> total(least)]}
           \cup {[status |-> "FEASIBLE",
                  shortfall |-> [least EXCEPT ![p[1]] = @ + p[2]],
                  total_shortfall |-> total(least) + p[2]] :
                   p \in {q \in secs \X (1..SfSlack) : least[q[1]] + q[2] <= SOFT_FLOOR}}

\* what main() of an engine script goes on with after solver.Solve(model): the
\* values of x when the status is accepted, nothing otherwise; either way it
\* prints its lines and returns, having saved its tables only in the first case
engine_run(script, r) ==
  [script |-> script, status |-> r.status, returned |-> engine_accepts(r.status),
   x |-> IF engine_accepts(r.status) THEN r.x ELSE {},
   shortfall |-> <<>>, total_shortfall |-> 0,
   exit |-> "returned",
   printed |-> status_lines(script, r.status, Cardinality(r.x)),
   wrote |-> IF engine_accepts(r.status) THEN saved_tables(script) ELSE {}]

\* a run of 04_build_model_feasible.py
BuildModelFeasible ==
  /\ engine.script = "none"
  /\ \E r \in engine_solve(cfg_04) : engine' = engine_run("04_build_model_feasible", r)
  /\ UNCHANGED <<runs, exports, enrollments, sections, section_enrollments, last_run, args, courses, slots,
               base_sessions, cslots, overflow>>

\* a run of 08_max_capacity_model.py
MaxCapacityModel ==
  /\ engine.script = "none"
  /\ \E r \in engine_solve(cfg_08) : engine' = engine_run("08_max_capacity_model", r)
  /\ UNCHANGED <<runs, exports, enrollments, sections, section_enrollments, last_run, args, courses, slots,
               base_sessions, cslots, overflow>>

\* a run of 11_floor18_weeklycap_max.py
Floor18WeeklyCapMax ==
  /\ engine.script = "none"
  /\ \E r \in engine_solve(cfg_11) : engine' = engine_run("11_floor18_weeklycap_max", r)
  /\ UNCHANGED <<runs, exports, enrollments, sections, section_enrollments, last_run, args, courses, slots,
               base_sessions, cslots, overflow>>

\* a run of 12_softfloor18_max_total.py
SoftFloor18MaxTotal ==
  /\ engine.script = "none"
  /\ \E r \in engine_solve(cfg_12) :
       \E v \in shortfall_values(r) :
         engine' = [engine_run("12_softfloor18_max_total", r) EXCEPT
                      !.status = v.status,
                      !.printed = status_lines("12_softfloor18_max_total", v.status,
                                               Cardinality(r.x)),
                      !.shortfall = v.shortfall,
                      !.total_shortfall = v.total_shortfall]
  /\ UNCHANGED <<runs, exports, enrollments, sections, section_enrollments, last_run, args, courses, slots,
               base_sessions, cslots, overflow>>

\* a run of 13_max_total_cap20.py
MaxTotalCap20 ==
  /\ engine.script = "none"
  /\ \E r \in engine_solve(cfg_13) : engine' = engine_run("13_max_total_cap20", r)
  /\ UNCHANGED <<runs, exports, enrollments, sections, section_enrollments, last_run, args, courses, slots,
               base_sessions, cslots, overflow>>

\* main() of 44_floor18_cap20_max_facsplit.py: an accepted solve saves the
\* sessions of the sections, any other leaves the table on disk as it was
main_44 ==
  /\ Len(runs) < MaxRuns
  /\ runs' = Append(runs, "44_floor18_cap20_max_facsplit")
  /\ \E r \in engine_solve(cfg_44) :
       /\ engine' = engine_run("44_floor18_cap20_max_facsplit", r)
       /\ base_sessions' = IF engine_accepts(r.status) THEN section_sessions_rows(r.x)
                           ELSE base_sessions
  /\ UNCHANGED <<exports, enrollments, sections, section_enrollments, last_run, args, courses,
                 slots, cslots, overflow>>

\* a run of 44_floor18_cap20_max_facsplit.py
Floor18Cap20MaxFacsplit ==
  /\ engine.script = "none"
  /\ main_44

\* main() of 45_term_schedule_floor18_export.py: an accepted solve saves the
\* term schedule and the sessions of the sections
main_45 ==
  /\ Len(runs) < MaxRuns
  /\ runs' = Append(runs, "45_term_schedule_floor18_export")
  /\ \E r \in engine_solve(cfg_45) :
       /\ engine' = engine_run("45_term_schedule_floor18_export", r)
       /\ term_schedule' = IF engine_accepts(r.status) THEN term_schedule_rows(r.x)
                           ELSE term_schedule
       /\ term_section_sessions' = IF engine_accepts(r.status) THEN term_sessions_rows(r.x)
                                   ELSE term_section_sessions
  /\ UNCHANGED <<contingent_schedule, enrollments, sections, section_enrollments, last_run, args,
                 courses, slots, base_sessions, cslots, overflow>>

\* a run of 45_term_schedule_floor18_export.py
TermScheduleFloor18Export ==
  /\ engine.script = "none"
  /\ main_45

EngNext ==
  \/ BuildModelFeasible
  \/ MaxCapacityModel
  \/ Floor18WeeklyCapMax
  \/ SoftFloor18MaxTotal
  \/ MaxTotalCap20
  \/ Floor18Cap20MaxFacsplit
  \/ TermScheduleFloor18Export

EngSpec == EngInit /\ [][EngNext]_vars

\* --- the script runs: 02_sectioning.py and 02c_sectioning_ilp.py
RunInit ==
  /\ \E sc \in RunScenarios : enrollments = table(sc)
  /\ sections = <<>>
  /\ section_enrollments = <<>>
  /\ last_run = NoRun
  /\ args = NoArgs
  /\ courses = <<>>
  /\ slots = <<>>
  /\ engine = NoEngineRun
  /\ base_sessions = <<>>
  /\ cslots = <<>>
  /\ overflow = NoOverflowRun
  /\ term_schedule = NoFile
  /\ term_section_sessions = NoFile
  /\ contingent_schedule = NoFile
  /\ runs = <<>>

\* a run of 02_sectioning.py
GenerateSections ==
  \E order \in {"asc", "desc"} :
    \E corder \in courses_by_count(clean_enrollments(enrollments, order)) :
      \E r \in {generate_sections(enrollments, order, corder)} :
        /\ last_run' = [op |-> "generate_sections", status |-> r.status,
                        saved |-> r.saved, models |-> 0, ret |-> <<>>]
        /\ sections' = IF r.saved THEN r.sections ELSE sections
        /\ section_enrollments' =
             IF r.saved THEN r.section_enrollments ELSE section_enrollments
        /\ UNCHANGED <<runs, exports, enrollments, args, courses, slots, engine, base_sessions, cslots, overflow>>

\* a run of 02c_sectioning_ilp.py
BuildSectionsIlp ==
  \E order \in {"asc", "desc"} :
    \E enroll \in {clean_enrollments(enrollments, order)} :
      \E bucket \in {ilp_bucket(enroll)}, corder \in courses_by_count(enroll) :
        \E studs \in {ilp_studs(enroll, corder)} :
          \E rs \in ilp_solves(studs, bucket, corder) :
            \E r \in {build_sections_ilp(studs, corder, rs)} :
              /\ last_run' = [op |-> "build_sections_ilp", status |-> r.status,
                              saved |-> r.saved, models |-> r.models, ret |-> <<>>]
              /\ sections' = IF r.saved THEN r.sections ELSE sections
              /\ section_enrollments' =
                   IF r.saved THEN r.section_enrollments ELSE section_enrollments
              /\ UNCHANGED <<runs, exports, enrollments, args, courses, slots, engine, base_sessions, cslots, overflow>>

RunNext == GenerateSections \/ BuildSectionsIlp

RunSpec == RunInit /\ [][RunNext]_vars

\* --- the direct calls: each behaviour draws the arguments and makes one call
CallInit ==
  /\ \E sc \in CallScenarios, order \in {"asc", "desc"} :
       LET X == enrolled(sc, "X")
       IN  /\ enrollments = table(sc)
           /\ args = [course_id |-> "X",
                      student_ids |-> IF order = "asc" THEN X ELSE Reverse(X),
                      bucket |-> make_global_bucket(X \o enrolled(sc, "Y"))]
  /\ sections = <<>>
  /\ section_enrollments = <<>>
  /\ last_run = NoRun
  /\ courses = <<>>
  /\ slots = <<>>
  /\ engine = NoEngineRun
  /\ base_sessions = <<>>
  /\ cslots = <<>>
  /\ overflow = NoOverflowRun
  /\ term_schedule = NoFile
  /\ term_section_sessions = NoFile
  /\ contingent_schedule = NoFile
  /\ runs = <<>>

CallSectionCourse ==
  /\ last_run.op = "none"
  /\ last_run' = [op |-> "section_course", status |-> "returned", saved |-> FALSE,
                  models |-> 0,
                  ret |-> section_course(args.course_id, args.student_ids)]
  /\ UNCHANGED <<runs, exports, enrollments, sections, section_enrollments, args, courses, slots, engine,
               base_sessions, cslots, overflow>>

CallSolveAb ==
  /\ last_run.op = "none"
  /\ \E r \in solve_ab_assignment(args.student_ids, args.bucket, args.course_id) :
       last_run' = [op |-> "solve_ab_assignment", status |-> "returned", saved |-> FALSE,
                    models |-> r.models, ret |-> r]
  /\ UNCHANGED <<runs, exports, enrollments, sections, section_enrollments, args, courses, slots, engine,
               base_sessions, cslots, overflow>>

CallNext == CallSectionCourse \/ CallSolveAb

CallSpec == CallInit /\ [][CallNext]_vars

\* --- the overflow runs: one script run per behaviour
OvfInit ==
  /\ \E sc \in OvfScenarios :
       /\ sections = eng_sections(sc)
       /\ section_enrollments = eng_enroll(sc)
       /\ courses = eng_courses(sc)
       /\ base_sessions = ovf_base(sc)
       /\ cslots = build_contingent_slots(sc.days, sc.per_day, sc.room_cap)
  /\ enrollments = {}
  /\ slots = <<>>
  /\ last_run = NoRun
  /\ args = NoArgs
  /\ engine = NoEngineRun
  /\ overflow = NoOverflowRun
  /\ term_schedule = NoFile
  /\ term_section_sessions = NoFile
  /\ contingent_schedule = NoFile
  /\ runs = <<>>

\* main() of 61_solve_contingent_days_min.py: it reads the sessions the
\* primary stage saved, and saves the overflow schedule of an accepted solve
main_61 ==
  /\ Len(runs) < MaxRuns
  /\ runs' = Append(runs, "61_solve_contingent_days_min")
  /\ IF base_sessions = NoFile
       THEN /\ overflow' = file_not_found("61_solve_contingent_days_min")
            /\ UNCHANGED contingent_schedule
     ELSE IF total_need = 0
       THEN /\ overflow' = nothing_to_schedule
            /\ UNCHANGED contingent_schedule
     ELSE \E r \in ovf_solve(cslot_rows, ovf_section_ids, deficit) :
            /\ overflow' = overflow_run("61_solve_contingent_days_min", r)
            /\ contingent_schedule' = IF engine_accepts(r.status)
                                        THEN contingent_schedule_rows(r.x)
                                      ELSE contingent_schedule
  /\ UNCHANGED <<term_schedule, term_section_sessions, enrollments, sections,
                 section_enrollments, last_run, args, courses, slots, engine, base_sessions,
                 cslots>>

\* a run of 61_solve_contingent_days_min.py
SolveContingentDaysMin ==
  /\ overflow.script = "none"
  /\ main_61

\* a run of 50_contingent_day_minimization.py: it prints its result and saves nothing
ContingentDayMinimization ==
  /\ overflow.script = "none"
  /\ IF base_sessions = NoFile
       THEN overflow' = file_not_found("50_contingent_day_minimization")
     ELSE \E r \in ovf_solve(fixed_pool_rows, ovf_section_ids, deficit) :
            overflow' = overflow_run("50_contingent_day_minimization", r)
  /\ UNCHANGED <<runs, exports, enrollments, sections, section_enrollments, last_run, args, courses,
                 slots, engine, base_sessions, cslots>>

OvfNext == SolveContingentDaysMin \/ ContingentDayMinimization

OvfSpec == OvfInit /\ [][OvfNext]_vars

\* --- the staged runs: any MaxRuns runs of the primary stage (44), the term
\* --- export (45) and the Overflow Scheduler (61), in any order, on one set of
\* --- input tables; the tables a run saves stay on disk for the runs after it
\* two unrelated sections in one long week with a single room and one slot
\* less than both ceilings need; the pool has one day of two slots
StagedOneRoom ==
  [cs    |-> <<"C1", "C2">>,
   fac   |-> <<"F1", "F2">>,
   studs |-> <<{"C1"}, {"C2"}>>,
   weeks |-> <<[week |-> 1, n |-> LongWeekSlots - 1, room_capacity |-> 1]>>,
   days |-> 1, per_day |-> 2, room_cap |-> ROOM_CAP]

PipeScenarios == {StagedOneRoom}

PipeInit ==
  /\ \E sc \in PipeScenarios :
       /\ sections = eng_sections(sc)
       /\ section_enrollments = eng_enroll(sc)
       /\ courses = eng_courses(sc)
       /\ slots = build_slots(sc.weeks)
       /\ cslots = build_contingent_slots(sc.days, sc.per_day, sc.room_cap)
  /\ enrollments = {}
  /\ last_run = NoRun
  /\ args = NoArgs
  /\ engine = NoEngineRun
  /\ base_sessions = NoFile
  /\ overflow = NoOverflowRun
  /\ term_schedule = NoFile
  /\ term_section_sessions = NoFile
  /\ contingent_schedule = NoFile
  /\ runs = <<>>

PipeNext == main_44 \/ main_45 \/ main_61

PipeSpec == PipeInit /\ [][PipeNext]_vars

\* ------------------------------------------------------------------ claims
\* the stripped ids enrolled in course c according to enrollments.csv
EnrolledIds(c) == {strip(r[2]) : r \in {q \in enrollments : q[1] = c}}

\* the rows of section_enrollments.csv that belong to a section of course c
EnrollRowsOf(c) == {i \in DOMAIN section_enrollments : section_enrollments[i].section_id[1] = c}

FilesWritten == last_run.saved \/ sections # <<>>

\* C1: in the tables a Sectioner run (balanced or ILP) has written, every
\* enrolled student of a course is named by exactly one SectionEnrollment row
\* of the course's sections, and every such row names an enrolled student.
C1_SectioningPartition ==
  FilesWritten =>
    \A c \in Courses :
      /\ \A sid \in EnrolledIds(c) :
           Cardinality({i \in EnrollRowsOf(c) : section_enrollments[i].student_id = sid}) = 1
      /\ \A i \in EnrollRowsOf(c) : section_enrollments[i].student_id \in EnrolledIds(c)

C1_Witness ==
  /\ last_run.op = "build_sections_ilp"
  /\ last_run.saved
  /\ \E i \in DOMAIN sections : sections[i].section_label = "B"
  /\ \E r \in enrollments : r[2][2] = 1

\* the number of SectionEnrollment rows of a section
RealizedSize(section_id) ==
  Cardinality({i \in DOMAIN section_enrollments :
                 section_enrollments[i].section_id = section_id})

\* C2: every section a Sectioner run has written holds at most MAX_CAP
\* students, and at least MIN_CAP unless it is the only section of its course.
C2_CapacityBound ==
  \A i \in DOMAIN sections :
    LET row  == sections[i]
        only == \A j \in DOMAIN sections : sections[j].course_id = row.course_id => j = i
    IN  /\ row.size = RealizedSize(row.section_id)
        /\ row.size <= 70
        /\ (row.size >= 25 \/ only)

C2_Witness ==
  /\ last_run.op = "build_sections_ilp"
  /\ last_run.saved
  /\ \E i, j \in DOMAIN sections :
       /\ sections[i].course_id = "X" /\ sections[i].section_label = "A"
       /\ sections[j].course_id = "X" /\ sections[j].section_label = "B"
       /\ sections[j].size = 25
       /\ sections[i].size + sections[j].size = Cardinality(EnrolledIds("X"))

\* the enrollment count of the course a direct call was made on
CallN == Len(args.student_ids)

\* a returned section_course result that is one section holding all students
OneSectionBalanced(ret) ==
  /\ ret.err = "none"
  /\ Len(ret.sections_rows) = 1
  /\ ret.sections_rows[1].size = CallN
  /\ Len(ret.section_enroll_rows) = CallN
  /\ {r.student_id : r \in Range(ret.section_enroll_rows)} = Range(args.student_ids)
  /\ \A r \in Range(ret.section_enroll_rows) : r.section_id = ret.sections_rows[1].section_id

\* a returned solve_ab_assignment result that is one section holding all students
OneSectionIlp(ret) ==
  /\ ret.err = "none"
  /\ ret.k = 1
  /\ DOMAIN ret.assign = Range(args.student_ids)
  /\ \A sid \in Range(args.student_ids) : ret.assign[sid] = 0

\* C3 as claimed: a course with 1 <= N <= MAX_CAP is accepted and forms one
\* section holding all N students, in balanced mode as well as in ILP mode.
C3_SmallCourseAccepted ==
  (1 <= CallN /\ CallN <= 70) =>
    /\ last_run.op = "section_course" => OneSectionBalanced(last_run.ret)
    /\ last_run.op = "solve_ab_assignment" => OneSectionIlp(last_run.ret)

\* C3 amended: the ILP Sectioner accepts every course with 1 <= N <= MAX_CAP
\* as one section holding all N students, with no lower bound; the balanced
\* Sectioner does so when MIN_CAP <= N <= MAX_CAP and rejects 1 <= N < MIN_CAP.
C3_SmallCourseAmended ==
  (1 <= CallN /\ CallN <= 70) =>
    /\ last_run.op = "section_course" =>
         IF CallN >= 25 THEN OneSectionBalanced(last_run.ret)
         ELSE last_run.ret = Raise("CannotSatisfy")
    /\ last_run.op = "solve_ab_assignment" => OneSectionIlp(last_run.ret)

C3_Witness ==
  /\ last_run.op = "solve_ab_assignment"
  /\ CallN = 24
  /\ OneSectionIlp(last_run.ret)

\* C4: when section_course accepts N students it returns k = ceil(N / MAX_CAP)
\* sections labelled A, B, ... in order; the first N mod k hold floor(N/k) + 1
\* students and the rest floor(N/k), so the sizes sum to N, differ by at most
\* one and do not increase; 145 students give 49, 48, 48.
C4_BalancedSizes ==
  (last_run.op = "section_course" /\ last_run.ret.err = "none") =>
    LET rows == last_run.ret.sections_rows
        k    == Len(rows)
        erow == last_run.ret.section_enroll_rows
    IN  /\ k * 70 >= CallN /\ (k - 1) * 70 < CallN
        /\ \A i \in 1..k :
             /\ rows[i].section_label = ALPHABET[i]
             /\ rows[i].size = (CallN \div k) + (IF i <= CallN % k THEN 1 ELSE 0)
             /\ rows[i].size =
                  Cardinality({j \in DOMAIN erow : erow[j].section_id = rows[i].section_id})
        /\ \A i, j \in 1..k :
             /\ rows[i].size - rows[j].size \in {-1, 0, 1}
             /\ i < j => rows[i].size >= rows[j].size
        /\ Len(erow) = CallN
        /\ CallN = 145 => [i \in 1..k |-> rows[i].size] = <<49, 48, 48>>

C4_Witness ==
  /\ last_run.op = "section_course"
  /\ CallN = 145
  /\ last_run.ret.err = "none"
  /\ Len(last_run.ret.sections_rows) = 3

\* the two rejection conditions C5 names
C5_Infeasible(N) ==
  N = 0 \/ (N + 69) \div 70 > (IF N < 25 THEN 0 ELSE N \div 25)

\* C5 as claimed: section_course rejects exactly when N = 0 or
\* ceil(N / MAX_CAP) > k_max; a rejection returns no rows; the re-validation of
\* the balanced sizes never fails.
C5_RejectsIffInfeasible ==
  last_run.op = "section_course" =>
    /\ last_run.ret.err # "none" <=> C5_Infeasible(CallN)
    /\ last_run.ret.err # "none" =>
         last_run.ret.sections_rows = <<>> /\ last_run.ret.section_enroll_rows = <<>>
    /\ last_run.ret.err # "SizesInvalid"

\* C5 amended: section_course rejects exactly when N = 0, or
\* ceil(N / MAX_CAP) > k_max, or ceil(N / MAX_CAP) > 26 (more sections than the
\* labels A..Z); a rejection returns no rows; the re-validation never fails.
C5_RejectsAmended ==
  last_run.op = "section_course" =>
    /\ last_run.ret.err # "none" <=> (C5_Infeasible(CallN) \/ (CallN + 69) \div 70 > 26)
    /\ last_run.ret.err # "none" =>
         last_run.ret.sections_rows = <<>> /\ last_run.ret.section_enroll_rows = <<>>
    /\ last_run.ret.err # "SizesInvalid"

C5_Witness ==
  /\ last_run.op = "section_course"
  /\ CallN = 24
  /\ last_run.ret = Raise("CannotSatisfy")

\* sum(mismatch) of a returned assignment against the global identity
Mismatches(assign) ==
  Cardinality({sid \in Range(args.student_ids) : assign[sid] # args.bucket[sid]})

\* C6 as claimed: a two-way split solve_ab_assignment returns has the least
\* number of students opposite to their identity among all splits with both
\* sizes in [MIN_CAP, MAX_CAP] (a split moving a0 identity-0 students to B and
\* a1 identity-1 students to A has a0 + a1 mismatches).
C6_MinimalMismatch ==
  (last_run.op = "solve_ab_assignment" /\ last_run.ret.err = "none" /\ last_run.ret.k = 2) =>
    LET n0 == Cardinality({sid \in Range(args.student_ids) : args.bucket[sid] = 0})
        n1 == CallN - n0
        mm == Mismatches(last_run.ret.assign)
    IN  \A a0 \in 0..n0, a1 \in 0..n1 :
          LET sizeB == n1 - a1 + a0
              sizeA == CallN - sizeB
          IN  (25 <= sizeA /\ sizeA <= 70 /\ 25 <= sizeB /\ sizeB <= 70) => a0 + a1 >= mm

\* some course of enrollments.csv needs more than two sections
NeedsThree == \E c \in Courses : Cardinality(EnrolledIds(c)) > 2 * 70

\* C7: an ILP run on a table with a course of more than 2 * MAX_CAP students
\* raises the section-count error before it builds any optimization model and
\* leaves sections.csv and section_enrollments.csv as they were.
C7_FailsFastOverTwo ==
  [][(last_run'.op = "build_sections_ilp" /\ NeedsThree) =>
       /\ last_run'.status = "Expected2Sections"
       /\ last_run'.models = 0
       /\ ~last_run'.saved
       /\ sections' = sections
       /\ section_enrollments' = section_enrollments]_vars

C7_Witness ==
  /\ last_run.op = "build_sections_ilp"
  /\ last_run.status = "Expected2Sections"
  /\ Len(sections) = 5
  /\ Cardinality(EnrolledIds("Y")) > 70

\* C8 as claimed: two accepted runs of the same Sectioner mode on the same
\* enrollments (rows read in any order) write the same sections and the same
\* student-to-section placement.
C8_Deterministic ==
  [][(last_run.saved /\ last_run'.saved /\ last_run'.op = last_run.op) =>
       /\ sections' = sections
       /\ Range(section_enrollments') = Range(section_enrollments)]_vars

\* the sections assigned to a slot in the assignment the engine returned
AssignedTo(slot_id) == {p[1] : p \in {q \in engine.x : q[2] = slot_id}}

\* C9: in every assignment an engine script returns (whatever its objective),
\* the number of sections assigned to a slot is at most the room capacity
\* slots.csv gives for the slot.
C9_RoomCapacity ==
  engine.returned =>
    \A i \in DOMAIN slots : Cardinality(AssignedTo(slots[i].slot_id)) <= slots[i].room_capacity

C9_Witness ==
  /\ engine.returned
  /\ engine.script = "44_floor18_cap20_max_facsplit"
  /\ \E i \in DOMAIN slots :
       /\ Cardinality(AssignedTo(slots[i].slot_id)) = slots[i].room_capacity
       /\ Len(sections) > slots[i].room_capacity

\* the sections a student is enrolled in according to section_enrollments.csv
SectionsOf(sid) ==
  {section_enrollments[i].section_id :
     i \in {k \in DOMAIN section_enrollments : section_enrollments[k].student_id = sid}}

\* C10: in every assignment an engine script returns (whatever its objective),
\* no slot holds two sections of one student.
C10_NoDoubleBooking ==
  engine.returned =>
    \A i \in DOMAIN slots, k \in DOMAIN section_enrollments :
      Cardinality(AssignedTo(slots[i].slot_id)
                  \cap SectionsOf(section_enrollments[k].student_id)) <= 1

C10_Witness ==
  /\ engine.returned
  /\ engine.script = "44_floor18_cap20_max_facsplit"
  /\ \E k \in DOMAIN section_enrollments :
       LET mine == SectionsOf(section_enrollments[k].student_id)
       IN  /\ Cardinality(mine) >= 2
           /\ \A sec \in mine : \E p \in engine.x : p[1] = sec

\* the faculty identity of a section resolved at a week
ResolvedFaculty(sec, week) == get_faculty(sec_to_course[sec], week)

\* C11 as claimed: in every assignment an engine script returns (whatever its
\* objective), no slot holds two sections whose faculty identities, resolved
\* at the slot's week, are equal.
C11_NoFacultyCollision ==
  engine.returned =>
    \A i \in DOMAIN slots :
      \A s1, s2 \in AssignedTo(slots[i].slot_id) :
        ResolvedFaculty(s1, slots[i].week) = ResolvedFaculty(s2, slots[i].week) => s1 = s2

\* the realized sessions of a section in the assignment the engine returned
Sessions(sec) == Cardinality({p \in engine.x : p[1] = sec})

HardFloorScripts ==
  {"11_floor18_weeklycap_max", "44_floor18_cap20_max_facsplit",
   "45_term_schedule_floor18_export"}

\* C12: in every assignment a hard-floor script (floor 18, ceiling 20) returns,
\* with status OPTIMAL or FEASIBLE, every section has between 18 and 20
\* sessions.
C12_SessionBound ==
  (engine.returned /\ engine.script \in HardFloorScripts) =>
    \A i \in DOMAIN sections :
      18 <= Sessions(sections[i].section_id) /\ Sessions(sections[i].section_id) <= 20

C12_Witness ==
  /\ engine.returned
  /\ engine.script = "45_term_schedule_floor18_export"
  /\ engine.status = "FEASIBLE"
  /\ \E i, j \in DOMAIN sections :
       /\ Sessions(sections[i].section_id) = 18
       /\ Sessions(sections[j].section_id) = 19

\* C13 as claimed: in every assignment an engine script returns, in every
\* objective mode, every section has at most 20 sessions.
C13_CeilingEveryMode ==
  engine.returned =>
    \A i \in DOMAIN sections : Sessions(sections[i].section_id) <= 20

\* the sessions of a section in the slots of one week
SessionsInWeek(sec, week) ==
  Cardinality({p \in engine.x : p[1] = sec /\ p[2] \in {sl.slot_id : sl \in {q \in Range(slots) : q.week = week}}})

\* C14: in every assignment the weekly-cap script returns, a section has at
\* most MAX_PER_WEEK (2) sessions in the slots of any one week, and between 18
\* and 20 sessions in all.
C14_WeeklyCap ==
  (engine.returned /\ engine.script = "11_floor18_weeklycap_max") =>
    \A i \in DOMAIN sections :
      /\ \A k \in DOMAIN slots : SessionsInWeek(sections[i].section_id, slots[k].week) <= 2
      /\ 18 <= Sessions(sections[i].section_id)
      /\ Sessions(sections[i].section_id) <= 20

C14_Witness ==
  /\ engine.returned
  /\ engine.script = "11_floor18_weeklycap_max"
  /\ \E i \in DOMAIN sections, k \in DOMAIN slots :
       /\ Cardinality({q \in Range(slots) : q.week = slots[k].week}) = 3
       /\ SessionsInWeek(sections[i].section_id, slots[k].week) = 2

\* C15 as claimed: in every solution the soft-floor script reports (status
\* OPTIMAL or FEASIBLE), the shortfall of a section is max(0, 18 - realized
\* sessions), the total shortfall is the sum of the shortfalls, and no section
\* has more than 20 sessions.
C15_ShortfallExact ==
  (engine.returned /\ engine.script = "12_softfloor18_max_total") =>
    /\ \A i \in DOMAIN sections :
         LET sec == sections[i].section_id
         IN  /\ engine.shortfall[sec] = (IF 18 > Sessions(sec) THEN 18 - Sessions(sec) ELSE 0)
             /\ Sessions(sec) <= 20
    /\ engine.total_shortfall =
         SumSeq([i \in 1..Len(section_ids) |-> engine.shortfall[section_ids[i]]])

\* the overflow slots a section got in the schedule the scheduler returned
OvfSessions(sec) == Cardinality({p \in overflow.x : p[1] = sec})

\* C16: in every schedule an overflow script returns, a section whose primary
\* sessions leave a deficit 20 - sessions > 0 gets exactly that many overflow
\* slots, and a section without deficit gets none; 15 sessions give 5 slots.
C16_DeficitExact ==
  overflow.returned =>
    \A i \in DOMAIN base_sessions :
      OvfSessions(base_sessions[i].section_id) =
        (IF 20 - base_sessions[i].sessions > 0 THEN 20 - base_sessions[i].sessions ELSE 0)

C16_Witness ==
  /\ overflow.returned
  /\ overflow.script = "61_solve_contingent_days_min"
  /\ \E i, j \in DOMAIN base_sessions :
       /\ base_sessions[i].sessions = 15
       /\ OvfSessions(base_sessions[i].section_id) = 5
       /\ base_sessions[j].sessions = 20
       /\ OvfSessions(base_sessions[j].section_id) = 0

\* the pool of overflow slots the script of the last run works on
PoolRows ==
  IF overflow.script = "50_contingent_day_minimization" THEN fixed_pool_rows ELSE cslot_rows

PoolDay(slot_id) == CHOOSE d \in {r.day : r \in Range(PoolRows)} :
                      \E r \in Range(PoolRows) : r.id = slot_id /\ r.day = d

\* the least number of distinct days occupied by an assignment of the deficit
\* sections to the pool that meets the exact deficits, the room capacities and
\* the student and faculty exclusivity
LeastDays ==
  Min({Cardinality({PoolDay(p[2]) : p \in xx}) :
         xx \in {layout(ovf_classes(PoolRows, ovf_section_ids), q.bs, "first") :
                   q \in ovf_feasible(ovf_section_ids, deficit,
                                      ovf_classes(PoolRows, ovf_section_ids))}})

\* C17 as claimed: the number of days an overflow script reports as used is
\* the least possible, for every result it reports (OPTIMAL or FEASIBLE).
C17_MinimalDays ==
  overflow.returned => Cardinality(overflow.used) <= LeastDays

\* C18: in every schedule an overflow script returns, the day of every
\* assigned overflow slot is among the days reported as used.
C18_LinkedDays ==
  overflow.returned => \A p \in overflow.x : PoolDay(p[2]) \in overflow.used

C18_Witness ==
  /\ overflow.returned
  /\ overflow.script = "61_solve_contingent_days_min"
  /\ Cardinality({PoolDay(p[2]) : p \in overflow.x}) = 2
  /\ Cardinality(overflow.used) = 2

\* the sections assigned to an overflow slot in the returned schedule
OvfAssignedTo(slot_id) == {p[1] : p \in {q \in overflow.x : q[2] = slot_id}}

\* the sections with a deficit
DeficitSections == {r.section_id : r \in {q \in Range(base_sessions) : 20 - q.sessions > 0}}

\* C19: in every schedule an overflow script returns, no overflow slot holds
\* two deficit sections of one student, and no slot holds more sections than
\* its room capacity.
C19_OverflowConflicts ==
  overflow.returned =>
    \A r \in Range(PoolRows) :
      /\ Cardinality(OvfAssignedTo(r.id)) <= r.cap
      /\ \A k \in DOMAIN section_enrollments :
           Cardinality(OvfAssignedTo(r.id) \cap DeficitSections
                       \cap SectionsOf(section_enrollments[k].student_id)) <= 1

C19_Witness ==
  /\ overflow.returned
  /\ overflow.script = "61_solve_contingent_days_min"
  /\ \E r \in Range(PoolRows) :
       /\ Cardinality(OvfAssignedTo(r.id)) = r.cap
       /\ Cardinality(DeficitSections) > r.cap

\* the weeks of the term
TermWeekSet == 1..10

\* C20 as claimed: two deficit sections whose faculty identities, resolved as
\* the primary engine resolves them, are equal in some week of the term never
\* share an overflow slot.
C20_FacultyMirrors ==
  overflow.returned =>
    \A r \in Range(PoolRows) :
      \A s1, s2 \in OvfAssignedTo(r.id) :
        (\E w \in TermWeekSet : ResolvedFaculty(s1, w) = ResolvedFaculty(s2, w)) => s1 = s2

\* the sessions of a section in the exported term schedule
TermSessions(sec) ==
  Cardinality({i \in DOMAIN term_schedule : term_schedule[i].section_id = sec})

\* the overflow slots of a section in the exported overflow schedule
ContingentSessions(sec) ==
  Cardinality({i \in DOMAIN contingent_schedule : contingent_schedule[i].section_id = sec})

\* C21: once the term export (45) and the Overflow Scheduler (61) have both
\* saved their schedules, every section has the target ceiling of 20 sessions
\* in the term schedule and the overflow schedule together.
C21_OverflowCoversExport ==
  (term_schedule # NoFile /\ contingent_schedule # NoFile) =>
    \A sec \in Range(section_ids) : TermSessions(sec) + ContingentSessions(sec) = CAP_TOTAL

\* C23: a run of a stage that has output tables either raised an error or
\* saved all of its tables; it never returns normally having saved nothing.
C23_OutputOrRaise ==
  /\ (engine.script # "none" /\ saved_tables(engine.script) # {}) =>
       (engine.exit = "raised" \/ engine.wrote = saved_tables(engine.script))
  /\ (overflow.script # "none" /\ saved_tables(overflow.script) # {}) =>
       (overflow.exit = "raised" \/ overflow.wrote = saved_tables(overflow.script))

\* C24: when the latest run of the primary stage (44, which saves the
\* per-section session table) ended without a solution, an Overflow Scheduler
\* run that comes after it saves no overflow schedule and returns no assignment.
C24_NoStaleHandoff ==
  (/\ runs # <<>>
   /\ runs[Len(runs)] = "61_solve_contingent_days_min"
   /\ engine.script = "44_floor18_cap20_max_facsplit"
   /\ ~engine.returned) =>
    (overflow.wrote = {} /\ overflow.x = {})

\* the days of the pool of 61_solve_contingent_days_min.py
PoolDayCount == Cardinality({cslots[i].c_day : i \in DOMAIN cslots})

\* C22: the lines a stage prints tell a time-out from a proof of
\* infeasibility and an unproved result from an optimal one: a run that ends
\* with status UNKNOWN does not print what the script prints for INFEASIBLE,
\* and a run accepted with FEASIBLE does not print what it prints for OPTIMAL
\* with the same values.
C22_StatusReported ==
  /\ engine.status = "UNKNOWN" =>
       engine.printed # status_lines(engine.script, "INFEASIBLE", 0)
  /\ engine.status = "FEASIBLE" =>
       engine.printed # status_lines(engine.script, "OPTIMAL", Cardinality(engine.x))
  /\ overflow.status = "UNKNOWN" =>
       overflow.printed # status_lines(overflow.script, "INFEASIBLE", PoolDayCount)
  /\ overflow.status = "FEASIBLE" =>
       overflow.printed # status_lines(overflow.script, "OPTIMAL", Cardinality(overflow.used))

\* the raw faculty string of a course in courses.csv
RawFaculty(c) == courses[Max({i \in DOMAIN courses : courses[i].course_id = c})].faculty_raw

\* the faculty the claim gives a course in a week
ExpectedFaculty(c, week) ==
  IF c = "DTI" THEN (IF week \in 1..5 THEN "Prof. Rohit Kumar" ELSE "Prof. Rogers")
  ELSE RawFaculty(c)

\* C25: get_faculty gives the split course its pre-mid faculty in the weeks up
\* to 5 and its post-mid faculty after them, and any other course its raw
\* faculty in every week; in the faculty groups of every slot each section is
\* in exactly one group, that of its faculty in the slot's week; and the rows
\* of an exported term schedule carry that faculty.
C25_FacultyResolution ==
  /\ \A i \in DOMAIN slots :
       LET week   == slots[i].week
           groups == faculty_groups(week)
       IN  \A sec \in Range(section_ids) :
             /\ get_faculty(sec_to_course[sec], week) = ExpectedFaculty(sec_to_course[sec], week)
             /\ {fac \in DOMAIN groups : sec \in Range(groups[fac])}
                  = {ExpectedFaculty(sec_to_course[sec], week)}
  /\ \A i \in DOMAIN term_schedule :
       term_schedule[i].faculty
         = ExpectedFaculty(term_schedule[i].course_id, term_schedule[i].week)

\* the term export has saved a schedule in which the split course is taught
\* by its pre-mid faculty in one week and by its post-mid faculty in another,
\* beside a course of the post-mid faculty
C25_Witness ==
  /\ engine.script = "45_term_schedule_floor18_export"
  /\ engine.returned
  /\ \E i, j, k \in DOMAIN term_schedule :
       /\ term_schedule[i].course_id = "DTI"
       /\ term_schedule[i].faculty = "Prof. Rohit Kumar"
       /\ term_schedule[j].course_id = "DTI"
       /\ term_schedule[j].faculty = "Prof. Rogers"
       /\ term_schedule[k].course_id # "DTI"
       /\ term_schedule[k].faculty = "Prof. Rogers"

\* the rows of the split course's section sec in the exported term schedule
SplitRows(sec) ==
  {i \in DOMAIN term_schedule :
     term_schedule[i].section_id = sec /\ term_schedule[i].course_id = "DTI"}

\* slot order: the weeks in order, and the slots of a week in order
SlotBefore(a, b) == a[1] < b[1] \/ (a[1] = b[1] /\ a[2] < b[2])

\* the sessions of row i's section that come before row i in slot order
SessionsBefore(i) ==
  Cardinality({j \in SplitRows(term_schedule[i].section_id) :
                 SlotBefore(term_schedule[j].slot_id, term_schedule[i].slot_id)})

\* C27 as stated: in an exported term schedule exactly the first 10 sessions
\* (in slot order) of every section of the split course are attributed to the
\* pre-mid faculty, and the sessions after them to the post-mid faculty.
C27_FirstTenPremid ==
  \A i \in DOMAIN term_schedule :
    term_schedule[i].course_id = "DTI" =>
      term_schedule[i].faculty
        = (IF SessionsBefore(i) < 10 THEN "Prof. Rohit Kumar" ELSE "Prof. Rogers")

\* C27 amended: in an exported term schedule the sessions of the split course
\* in the weeks up to 5 are attributed to the pre-mid faculty and those in the
\* later weeks to the post-mid faculty, so the pre-mid sessions of a section
\* come first in slot order; their number is the number of its sessions in
\* the weeks up to 5, whatever that is.
C27_WeekRule ==
  \A i \in DOMAIN term_schedule :
    term_schedule[i].course_id = "DTI" =>
      /\ term_schedule[i].faculty
           = (IF term_schedule[i].week <= 5 THEN "Prof. Rohit Kumar" ELSE "Prof. Rogers")
      /\ \A j \in SplitRows(term_schedule[i].section_id) :
           (term_schedule[i].faculty = "Prof. Rohit Kumar"
            /\ term_schedule[j].faculty = "Prof. Rogers") =>
             SlotBefore(term_schedule[i].slot_id, term_schedule[j].slot_id)

\* an exported term schedule in which a section of the split course has both
\* faculties and more than 10 sessions in the weeks up to 5
C27_Witness ==
  /\ engine.script = "45_term_schedule_floor18_export"
  /\ engine.returned
  /\ \E sec \in Range(section_ids) :
       /\ Cardinality({i \in SplitRows(sec) : term_schedule[i].week <= 5}) > 10
       /\ \E i \in SplitRows(sec) : term_schedule[i].week > 5

\* the hard floor of a script's model
FloorOf(script) ==
  IF script = "04_build_model_feasible" THEN MIN_SESSIONS
  ELSE IF script = "11_floor18_weeklycap_max" THEN FLOOR_11
  ELSE IF script = "44_floor18_cap20_max_facsplit" THEN FLOOR
  ELSE FLOOR_45

\* some student is enrolled in m sections with m * f above the number of slots
Overbooked(f) ==
  \E sid \in DOMAIN student_to_sections :
    Len(student_to_sections[sid]) * f > Len(slot_ids)

\* C26: a script with a hard floor f returns no assignment when some student
\* is enrolled in m sections and m * f exceeds the number of slots.
C26_OverloadedStudent ==
  (/\ engine.script \in HardFloorScripts \cup {"04_build_model_feasible"}
   /\ Overbooked(FloorOf(engine.script))) =>
    (~engine.returned /\ engine.x = {} /\ engine.wrote = {})

\* the primary stage has found its model infeasible on a table with enough
\* slots for the floor of any one section, where a student of two sections
\* would need more sessions than there are slots
C26_Witness ==
  /\ engine.script = "44_floor18_cap20_max_facsplit"
  /\ engine.status = "INFEASIBLE"
  /\ Len(slot_ids) >= FLOOR
  /\ Overbooked(FLOOR)

\* the distance from n to the interval lo..hi
Dist(n, lo, hi) == IF n < lo THEN lo - n ELSE IF n > hi THEN n - hi ELSE 0

\* the students of global identity 0 among those of a direct call
CallZeros == Cardinality({sid \in Range(args.student_ids) : args.bucket[sid] = 0})

\* the distance from the number of identity-0 students to the sizes section A
\* may have: max(MIN_CAP, N - MAX_CAP) .. min(MAX_CAP, N - MIN_CAP)
CallDist ==
  Dist(CallZeros,
       IF CallN - 70 > 25 THEN CallN - 70 ELSE 25,
       IF CallN - 25 < 70 THEN CallN - 25 ELSE 70)

\* C28: for a two-way split of N students of whom n0 have identity 0, no
\* returned split has fewer mismatches than the distance from n0 to
\* max(MIN_CAP, N - MAX_CAP) .. min(MAX_CAP, N - MIN_CAP), and a split
\* returned as OPTIMAL has exactly that many; when both identity groups have
\* between MIN_CAP and MAX_CAP students the OPTIMAL split gives every student
\* the section of their global identity.
C28_MinimumIsDistance ==
  (last_run.op = "solve_ab_assignment" /\ last_run.ret.err = "none" /\ last_run.ret.k = 2) =>
    LET mm == Mismatches(last_run.ret.assign)
    IN  /\ mm >= CallDist
        /\ last_run.ret.status = "OPTIMAL" => mm = CallDist
        /\ (/\ last_run.ret.status = "OPTIMAL"
            /\ CallZeros \in 25..70
            /\ CallN - CallZeros \in 25..70) =>
             \A sid \in Range(args.student_ids) :
               last_run.ret.assign[sid] = args.bucket[sid]

\* an OPTIMAL two-way split of a course whose identity-0 group is too large
\* for one section, with as many mismatches as the distance
C28_Witness ==
  /\ last_run.op = "solve_ab_assignment"
  /\ last_run.ret.err = "none"
  /\ last_run.ret.k = 2
  /\ last_run.ret.status = "OPTIMAL"
  /\ CallZeros > 70
  /\ CallDist > 0
  /\ Mismatches(last_run.ret.assign) = CallDist

\* C29: every day 61_solve_contingent_days_min.py reports as used holds an
\* assigned session, so the days reported are the days of the rows of the
\* overflow schedule it saves, for a result accepted as OPTIMAL or FEASIBLE.
C29_UsedDaysOccupied ==
  (overflow.script = "61_solve_contingent_days_min" /\ overflow.returned) =>
    /\ \A d \in overflow.used : \E p \in overflow.x : PoolDay(p[2]) = d
    /\ overflow.used = {contingent_schedule[i].c_day : i \in DOMAIN contingent_schedule}

\* the scripts whose model has a ceiling per section and no hard floor
NoFloorScripts == {"12_softfloor18_max_total", "13_max_total_cap20"}

\* C30: the soft-floor script and the maximize-total script with only a
\* ceiling never end with a proof of infeasibility, whatever the tables.
C30_NeverInfeasible ==
  engine.script \in NoFloorScripts => engine.status # "INFEASIBLE"

\* the soft-floor script has returned the empty assignment, with every
\* shortfall at 18, on a table whose slots have no room
C30_Witness ==
  /\ engine.script = "12_softfloor18_max_total"
  /\ engine.returned
  /\ engine.x = {}
  /\ \A i \in DOMAIN slots : slots[i].room_capacity = 0
  /\ \A sec \in Range(section_ids) : engine.shortfall[sec] = SOFT_FLOOR

====
